---- MODULE Spec2Model ----
(***************************************************************************)
(* A model of sandbox.py: the settings-file helpers (load_env_file,        *)
(* write_env_file), the interpreter selection (select_python, ensure_venv, *)
(* activate) and the run workflow (run, main) with its external commands.  *)
(*                                                                         *)
(* Text is a sequence of one-character strings.  A Python dict is the      *)
(* sequence of its <<key, value>> items in insertion order, keys unique.   *)
(* Optional[T] is <<>> for None and <<x>> for a value x.                   *)
(***************************************************************************)
EXTENDS Integers, Sequences, FiniteSets, TLC

VARIABLES
    \* ---- settings-file helpers
    envPc,      \* position of the load / write / load sequence
    fileF,      \* the settings file read first: [exists, text]
    data,       \* the dict load_env_file returned (write_env_file's `values`)
    fileG,      \* the file write_env_file wrote: [exists, text]
    data2,      \* the dict the second load_env_file returned
    \* ---- interpreter selection and activate
    actPc,      \* position inside activate
    candidates, \* what find_python_candidates returns on this host
    host,       \* [venv_exists, unit_testing, venv_ok]: the host activate runs on
    picked,     \* select_python's result (Optional path)
    venv_python,\* activate's local venv_python (Optional)
    created,    \* activate's local `created`
    installed,  \* whether install_requirements ran
    first_run,  \* how the run of activate before this one ended (Optional):
                \* [file, outcome, venv_python]
    \* ---- shared by the two subcommands
    outcome,    \* how the subcommand ended: Optional [kind, code]
    exit_status,\* the status the process ends with (Optional): what main returned,
                \* or the code of the SystemExit that left it
    envFile,    \* the settings file (args.env_file) on disk: [exists, text]
    playbook_path, \* the project root
    \* ---- the run workflow
    pc,         \* position inside run
    args,       \* the parsed command line of `run`
    onPath,     \* the commands shutil.which finds on this host
    preferred_engine, \* the argument of a direct call of detect_container_runtime
    container,  \* the engine's container of the effective name: absent, running, stopped
    keys,       \* the files of ssh_keys/: [priv, pub, auth] hold the id of the key
                \* written to them (NoKey: no file), and whether the vault file exists
    environ,    \* os.environ
    settings,   \* run's local `settings`
    runtime_preference, container_name, host_port_str, host_port, \* run's locals
    warnings,   \* the override warnings logged, in order
    runtime, volume_opt, \* what detect_container_runtime returned
    container_started,   \* run's local flag
    raising,    \* an exception is propagating out of the try block
    coll,       \* index of the collection setup_collections is at
    roles_action, \* what setup_roles did
    roles,      \* roles/ and the sibling checkout on disk: [exists, entries,
                \* requirements, sibling, link]
    log         \* the external commands issued, in order, with their results

envVars == <<envPc, fileF, data, fileG, data2>>
actVars == <<actPc, candidates, host, picked, venv_python, created, installed,
            first_run>>
cmdVars == <<outcome, exit_status, envFile, playbook_path>>
resolved == <<settings, runtime_preference, container_name, host_port_str, warnings>>
hostVars == <<args, onPath, preferred_engine>>
runVars == <<pc, hostVars, container, keys, environ, resolved, host_port, runtime,
             volume_opt, container_started, raising, coll, roles_action, roles, log>>
vars == <<envVars, actVars, cmdVars, runVars>>

None == <<>>
Some(x) == <<x>>

----------------------------------------------------------------------------
(* Bounds of the model *)

\* longest settings file text explored, in characters
MaxFileLen == 5
\* most items of a dict handed to write_env_file directly
MaxPairs == 3
\* most interpreter candidates on the host
MaxCands == 3
\* most successive calls of setup_ssh_keys
MaxCalls == 3

----------------------------------------------------------------------------
(* Text *)

NL == "\n"
\* the characters settings files are drawn from
Chars == {"a", "b", "=", "#", " ", NL}

\* code point of a character: Python orders str by code point
\* (scaled by 100; a settings key of the program is one symbol, ranked after
\* its first letter in the order Python sorts those keys)
Code(c) ==
    CASE c = NL -> 1000
      [] c = " " -> 3200
      [] c = "#" -> 3500
      [] c = "0" -> 4800
      [] c = "1" -> 4900
      [] c = "2" -> 5000
      [] c = "8" -> 5600
      [] c = "=" -> 6100
      [] c = "ANSIBLE_CALLBACKS_ENABLED" -> 6501
      [] c = "ANSIBLE_CALLBACK_RESULT_FORMAT" -> 6502
      [] c = "ANSIBLE_DISPLAY_ARGS_TO_STDOUT" -> 6503
      [] c = "ANSIBLE_FILTER_PLUGINS" -> 6504
      [] c = "ANSIBLE_LIBRARY" -> 6505
      [] c = "ANSIBLE_LOAD_CALLBACK_PLUGINS" -> 6506
      [] c = "ANSIBLE_LOG_PATH" -> 6507
      [] c = "ANSIBLE_ROLES_PATH" -> 6508
      [] c = "ANSIBLE_VAULT_PASSWORD_FILE" -> 6509
      [] c = "B" -> 6600
      [] c = "CONTAINER_HOST_PORT" -> 6701
      [] c = "CONTAINER_NAME" -> 6702
      [] c = "CONTAINER_RUNTIME" -> 6703
      [] c = "PLAYBOOK_PATH" -> 8001
      [] c = "VENV_PYTHON" -> 8601
      [] c = "a" -> 9700
      [] c = "b" -> 9800
      [] OTHER -> 12700

IsDigit(c) == c \in {"0", "1", "2", "3", "4", "5", "6", "7", "8", "9"}

DigitValue(c) ==
    CASE c = "0" -> 0 [] c = "1" -> 1 [] c = "2" -> 2 [] c = "3" -> 3 [] c = "4" -> 4
      [] c = "5" -> 5 [] c = "6" -> 6 [] c = "7" -> 7 [] c = "8" -> 8 [] c = "9" -> 9

\* the number a string of decimal digits denotes
RECURSIVE DigitsValue(_)
DigitsValue(s) ==
    IF s = <<>> THEN 0
    ELSE 10 * DigitsValue(SubSeq(s, 1, Len(s) - 1)) + DigitValue(s[Len(s)])

\* str(n) of a natural number
RECURSIVE IntToStr(_)
IntToStr(n) ==
    LET d == <<"0", "1", "2", "3", "4", "5", "6", "7", "8", "9">>[(n % 10) + 1]
    IN  IF n < 10 THEN <<d>> ELSE IntToStr(n \div 10) \o <<d>>

\* str.isspace of a character
IsSpace(c) == c = " " \/ c = NL

\* s < t for str: lexicographic by code point, a proper prefix is smaller
RECURSIVE StrLess(_, _)
StrLess(s, t) ==
    IF t = <<>> THEN FALSE
    ELSE IF s = <<>> THEN TRUE
    ELSE IF Code(Head(s)) < Code(Head(t)) THEN TRUE
    ELSE IF Code(Head(s)) > Code(Head(t)) THEN FALSE
    ELSE StrLess(Tail(s), Tail(t))

\* str.lstrip / str.rstrip / str.strip
RECURSIVE LStrip(_)
LStrip(s) == IF s # <<>> /\ IsSpace(Head(s)) THEN LStrip(Tail(s)) ELSE s

RECURSIVE RStrip(_)
RStrip(s) ==
    IF s # <<>> /\ IsSpace(s[Len(s)]) THEN RStrip(SubSeq(s, 1, Len(s) - 1)) ELSE s

Strip(s) == RStrip(LStrip(s))

\* index of the first occurrence of character c in s, 0 when there is none
RECURSIVE FindFrom(_, _, _)
FindFrom(s, c, i) ==
    IF i > Len(s) THEN 0
    ELSE IF s[i] = c THEN i
    ELSE FindFrom(s, c, i + 1)

Find(s, c) == FindFrom(s, c, 1)

\* str.splitlines: a final line break closes the last line, it opens no new one
RECURSIVE SplitLines(_)
SplitLines(text) ==
    IF text = <<>> THEN <<>>
    ELSE LET i == Find(text, NL) IN
         IF i = 0 THEN <<text>>
         ELSE <<SubSeq(text, 1, i - 1)>> \o SplitLines(SubSeq(text, i + 1, Len(text)))

\* "\n".join(lines)
RECURSIVE Join(_)
Join(lines) ==
    IF lines = <<>> THEN <<>>
    ELSE IF Len(lines) = 1 THEN lines[1]
    ELSE lines[1] \o <<NL>> \o Join(Tail(lines))

----------------------------------------------------------------------------
(* dict *)

Keys(d) == {d[i][1] : i \in DOMAIN d}
Items(d) == {d[i] : i \in DOMAIN d}

\* d.get(k): Optional value
Get(d, k) ==
    IF k \in Keys(d) THEN Some(d[CHOOSE i \in DOMAIN d : d[i][1] = k][2]) ELSE None

\* an assignment that adds an item where the key is there already
DictSet_Appends(d, k, v) == Append(d, <<k, v>>)

\* d[k] = v: an existing key keeps its place, a new key goes last
DictSet(d, k, v) ==
    IF k \in Keys(d)
    THEN [i \in DOMAIN d |-> IF d[i][1] = k THEN <<k, v>> ELSE d[i]]
    ELSE Append(d, <<k, v>>)

\* (k1, v1) < (k2, v2) for tuples of str
ItemLess(p, q) == StrLess(p[1], q[1]) \/ (p[1] = q[1] /\ StrLess(p[2], q[2]))

\* sorted(items): insertion of each item into the sorted rest (stable)
RECURSIVE InsertSorted(_, _)
InsertSorted(p, sorted) ==
    IF sorted = <<>> THEN <<p>>
    ELSE IF ItemLess(Head(sorted), p) \/ Head(sorted) = p
         THEN <<Head(sorted)>> \o InsertSorted(p, Tail(sorted))
         ELSE <<p>> \o sorted

RECURSIVE Sorted(_)
Sorted(items) ==
    IF items = <<>> THEN <<>>
    ELSE InsertSorted(items[Len(items)], Sorted(SubSeq(items, 1, Len(items) - 1)))

----------------------------------------------------------------------------
(* .env helpers *)

NoFile == [exists |-> FALSE, text |-> <<>>]
File(text) == [exists |-> TRUE, text |-> text]

\* index of the last occurrence of character c in s, 0 when there is none
RECURSIVE FindLast(_, _)
FindLast(s, c) ==
    IF s = <<>> THEN 0
    ELSE IF s[Len(s)] = c THEN Len(s)
    ELSE FindLast(SubSeq(s, 1, Len(s) - 1), c)

\* a loop body that splits at the last "="
LoadLine_SplitLast(d, raw_line) ==
    LET line == Strip(raw_line)
        eq == FindLast(line, "=")
    IN  IF line = <<>> \/ Head(line) = "#" THEN d
        ELSE IF eq = 0 THEN d
        ELSE DictSet(d, Strip(SubSeq(line, 1, eq - 1)),
                        Strip(SubSeq(line, eq + 1, Len(line))))

\* a loop body that tests the raw line, not the stripped one
LoadLine_RawLine(d, raw_line) ==
    LET line == raw_line
        eq == Find(line, "=")
    IN  IF line = <<>> \/ Head(line) = "#" THEN d
        ELSE IF eq = 0 THEN d
        ELSE DictSet(d, Strip(SubSeq(line, 1, eq - 1)),
                        Strip(SubSeq(line, eq + 1, Len(line))))

\* one pass of load_env_file's loop body over raw_line, given the dict so far
LoadLine(d, raw_line) ==
    LET line == Strip(raw_line)
        eq == Find(line, "=")
    IN  IF line = <<>> \/ Head(line) = "#" THEN d
        ELSE IF eq = 0 THEN d
        ELSE DictSet(d, Strip(SubSeq(line, 1, eq - 1)),
                        Strip(SubSeq(line, eq + 1, Len(line))))

RECURSIVE LoadLines(_, _)
LoadLines(d, lines) ==
    IF lines = <<>> THEN d ELSE LoadLines(LoadLine(d, Head(lines)), Tail(lines))

load_env_file(file) ==
    IF ~file.exists THEN <<>> ELSE LoadLines(<<>>, SplitLines(file.text))

\* the f"{key}={value}" lines of write_env_file
RECURSIVE FormatLines(_)
FormatLines(items) ==
    IF items = <<>> THEN <<>>
    ELSE <<Head(items)[1] \o <<"=">> \o Head(items)[2]>> \o FormatLines(Tail(items))

\* a write in insertion order
WriteOrder_Unsorted(values) == values

\* the items in the order write_env_file writes them
WriteOrder(values) == Sorted(values)

write_env_file(values) == File(Join(FormatLines(WriteOrder(values))) \o <<NL>>)

----------------------------------------------------------------------------
(* load -> persist -> load over a settings file *)

\* every text of at most n characters
Texts(n) == UNION {[1..k -> Chars] : k \in 0..n}

\* keys and values of the dicts handed to write_env_file directly
WKeys == {<<>>, <<"a">>, <<"b">>, <<"a", "b">>, <<"B">>}
WValues == {<<>>, <<"1">>, <<"a", "=", "b">>}

\* every dict of at most n items, in every insertion order
Dicts(n) ==
    {d \in UNION {[1..k -> WKeys \X WValues] : k \in 0..n} :
        \A i, j \in DOMAIN d : i # j => d[i][1] # d[j][1]}

EnvIdle ==
    /\ envPc = "idle" /\ fileF = NoFile /\ data = <<>> /\ fileG = NoFile /\ data2 = <<>>

\* M = load_env_file(f)
LoadF ==
    /\ envPc = "start"
    /\ data' = load_env_file(fileF)
    /\ envPc' = "loaded"
    /\ UNCHANGED <<fileF, fileG, data2>>

\* write_env_file(g, M)
WriteG ==
    /\ envPc = "loaded"
    /\ fileG' = write_env_file(data)
    /\ envPc' = "written"
    /\ UNCHANGED <<fileF, data, data2>>

\* load_env_file(g)
LoadG ==
    /\ envPc = "written"
    /\ data2' = load_env_file(fileG)
    /\ envPc' = "reloaded"
    /\ UNCHANGED <<fileF, data, fileG>>

----------------------------------------------------------------------------
(* Exit codes and main *)

RC_SUCCESS == 0
RC_UNHANDLED_EXCEPTION == 1
RC_MISSING_DEPENDENCY == 2
RC_NO_PYTHON == 3
RC_NO_RUNTIME == 4

Returned(code) == Some([kind |-> "returned", code |-> code])
Raised == Some([kind |-> "raised", code |-> -1])
\* SystemExit(code): argparse's way out of parse_args
Exited(code) == Some([kind |-> "system_exit", code |-> code])

\* the status argparse's error() exits with
ARGPARSE_ERROR == 2

\* what activate returns once it has written the settings file
ActivateReturn == Returned(RC_SUCCESS)

\* a main that converts every exception, SystemExit included
main_ConvertsSystemExit(ended) ==
    IF ended[1].kind = "returned" THEN ended[1].code ELSE RC_UNHANDLED_EXCEPTION

\* main: the subcommand's status, or 1 for any Exception it let escape; a
\* SystemExit is not an Exception and leaves main with its own code
main(ended) ==
    IF ended[1].kind = "returned" THEN ended[1].code
    ELSE IF ended[1].kind = "system_exit" THEN ended[1].code
    ELSE RC_UNHANDLED_EXCEPTION

----------------------------------------------------------------------------
(* Python selection helpers *)

\* v < w for version tuples
VerLess(v, w) ==
    \/ v[1] < w[1]
    \/ v[1] = w[1] /\ v[2] < w[2]
    \/ v[1] = w[1] /\ v[2] = w[2] /\ v[3] < w[3]

\* a selection without the upper bound
TooNew_Unbounded(version) == FALSE

\* the two `continue` tests of select_python
TooOld(version) == VerLess(version, <<3, 10, 0>>)

TooNew(version) == ~VerLess(version, <<3, 15, 0>>)

\* a selection that keeps the first in-range candidate
Better_FirstOnly(version, best) == best = None

\* a selection in which a later candidate of the same version wins
Better_LastOfEqual(version, best) == best = None \/ ~VerLess(version, best[1])

\* `best is None or version > best`
Better(version, best) == best = None \/ VerLess(best[1], version)

\* select_python's loop; a candidate is <<path, version>>
RECURSIVE SelectLoop(_, _, _)
SelectLoop(best, best_path, cands) ==
    IF cands = <<>> THEN best_path
    ELSE LET path == Head(cands)[1]
             version == Head(cands)[2]
         IN  IF TooOld(version) THEN SelectLoop(best, best_path, Tail(cands))
             ELSE IF TooNew(version) THEN SelectLoop(best, best_path, Tail(cands))
             ELSE IF Better(version, best)
                  THEN SelectLoop(Some(version), Some(path), Tail(cands))
                  ELSE SelectLoop(best, best_path, Tail(cands))

select_python(cands) == SelectLoop(None, None, cands)

\* versions an interpreter on the host may report
Versions ==
    ({3} \X {9, 10, 14, 15} \X {0, 1})
    \cup {<<2, 12, 0>>, <<2, 15, 1>>, <<4, 0, 0>>, <<4, 10, 0>>}

\* every candidate list of at most n interpreters; the i-th path is i
Cands(n) ==
    UNION {{[i \in 1..k |-> <<i, vs[i]>>] : vs \in [1..k -> Versions]} : k \in 0..n}

ActIdle ==
    /\ actPc = "idle" /\ candidates = <<>> /\ picked = None
    /\ host = [venv_exists |-> FALSE, unit_testing |-> FALSE]
    /\ venv_python = None /\ created = FALSE /\ installed = FALSE
    /\ first_run = None

CmdIdle ==
    /\ outcome = None /\ exit_status = None /\ envFile = NoFile
    /\ playbook_path = <<"/p">>

\* picked = select_python(candidates)
SelectPython ==
    /\ actPc = "select"
    /\ picked' = select_python(candidates)
    /\ actPc' = "selected"
    /\ UNCHANGED <<candidates, first_run, host, venv_python, created, installed>>

----------------------------------------------------------------------------
(* Activation workflow *)

DEFAULT_CONTAINER_RUNTIME == <<"podman">>
DEFAULT_CONTAINER_NAME == <<"ansible_target">>
DEFAULT_CONTAINER_IMAGE == <<"ansible_target", ":latest">>
DEFAULT_HOST_PORT == 2222
DEFAULT_VAULT_PASSWORD_FILE == <<"/", "vault-pw.txt">>

ANSIBLE_ENV_DEFAULTS ==
    << <<<<"ANSIBLE_DISPLAY_ARGS_TO_STDOUT">>, <<"false">>>>,
       <<<<"ANSIBLE_CALLBACKS_ENABLED">>, <<"profile_tasks">>>>,
       <<<<"ANSIBLE_LOAD_CALLBACK_PLUGINS">>, <<"true">>>>,
       <<<<"ANSIBLE_LOG_PATH">>, <<"ansible.log">>>>,
       <<<<"ANSIBLE_ROLES_PATH">>, <<"roles">>>>,
       <<<<"ANSIBLE_FILTER_PLUGINS">>, <<"plugins">>>>,
       <<<<"ANSIBLE_LIBRARY">>, <<"library">>>>,
       <<<<"ANSIBLE_CALLBACK_RESULT_FORMAT">>, <<"yaml">>>> >>

build_activation_env(root) ==
    << <<<<"PLAYBOOK_PATH">>, root>> >>
    \o ANSIBLE_ENV_DEFAULTS
    \o << <<<<"ANSIBLE_VAULT_PASSWORD_FILE">>, root \o DEFAULT_VAULT_PASSWORD_FILE>>,
          <<<<"CONTAINER_RUNTIME">>, DEFAULT_CONTAINER_RUNTIME>>,
          <<<<"CONTAINER_HOST_PORT">>, IntToStr(DEFAULT_HOST_PORT)>>,
          <<<<"CONTAINER_NAME">>, DEFAULT_CONTAINER_NAME>> >>

\* d.update(e)
RECURSIVE DictUpdate(_, _)
DictUpdate(d, e) ==
    IF e = <<>> THEN d ELSE DictUpdate(DictSet(d, Head(e)[1], Head(e)[2]), Tail(e))

\* playbook_path / ".venv" / "bin" / "python"
VenvPython(root) == root \o <<"/", ".venv/bin/python">>

\* activate up to the call of ensure_venv: _venv_python(playbook_path)
ActivateStart ==
    /\ actPc = "start"
    /\ created' = FALSE
    /\ IF host.venv_exists
       THEN venv_python' = Some(VenvPython(playbook_path)) /\ actPc' = "write_env"
       ELSE venv_python' = None /\ actPc' = "ensure_venv"
    /\ UNCHANGED <<candidates, first_run, host, picked, installed, cmdVars>>

\* ensure_venv up to the venv creation command
EnsureVenv ==
    /\ actPc = "ensure_venv"
    /\ IF host.unit_testing
       THEN /\ picked' = picked
            /\ actPc' = "write_env"
       ELSE IF candidates = <<>>
       THEN /\ picked' = picked
            /\ actPc' = "write_env"
       ELSE /\ picked' = select_python(candidates)
            /\ actPc' = IF picked' = None THEN "write_env" ELSE "create_venv"
    /\ UNCHANGED <<candidates, first_run, host, venv_python, created, installed, cmdVars>>

\* `python -m venv`, then the rest of ensure_venv and activate's `created`
CreateVenv ==
    /\ actPc = "create_venv"
    /\ \E ok \in BOOLEAN :
        IF ok
        THEN /\ host' = [host EXCEPT !.venv_exists = TRUE]
             /\ venv_python' = Some(VenvPython(playbook_path))
             /\ created' = TRUE
             /\ actPc' = "install"
        ELSE \* the failed command may have left .venv/bin/python behind
             /\ host' \in {host, [host EXCEPT !.venv_exists = TRUE]}
             /\ venv_python' = None
             /\ created' = FALSE
             /\ actPc' = "write_env"
    /\ UNCHANGED <<candidates, first_run, picked, installed, cmdVars>>

\* install_requirements: a failing pip command raises out of activate
InstallRequirements ==
    /\ actPc = "install"
    /\ \E ok \in BOOLEAN :
        IF ok
        THEN /\ installed' = TRUE /\ actPc' = "write_env" /\ UNCHANGED outcome
        ELSE /\ installed' = FALSE /\ actPc' = "done" /\ outcome' = Raised
    /\ UNCHANGED <<candidates, first_run, host, picked, venv_python, created, exit_status, envFile,
                   playbook_path>>

\* an update in which the values of the file win
ActivateValues_FileWins(file, root, venv) ==
    LET env_values == DictUpdate(build_activation_env(root), load_env_file(file))
    IN  IF venv # None THEN DictSet(env_values, <<"VENV_PYTHON">>, venv[1])
        ELSE env_values

\* an activate that writes its own values only
ActivateValues_DropsFile(file, root, venv) ==
    LET env_values == build_activation_env(root)
    IN  IF venv # None THEN DictSet(env_values, <<"VENV_PYTHON">>, venv[1])
        ELSE env_values

\* the dict activate writes
ActivateValues(file, root, venv) ==
    LET env_values == DictUpdate(load_env_file(file), build_activation_env(root))
    IN  IF venv # None THEN DictSet(env_values, <<"VENV_PYTHON">>, venv[1])
        ELSE env_values

\* the rest of activate: load, update, write, return
WriteEnv ==
    /\ actPc = "write_env"
    /\ envFile' = write_env_file(ActivateValues(envFile, playbook_path, venv_python))
    /\ outcome' = ActivateReturn
    /\ actPc' = "done"
    /\ UNCHANGED <<candidates, first_run, host, picked, venv_python, created, installed, exit_status,
                   playbook_path>>

\* activate is run a second time, as a new process on the same host, project
\* root and settings file
ActivateAgain ==
    /\ actPc = "done"
    /\ exit_status # None
    /\ first_run = None
    /\ first_run' = Some([file |-> envFile, outcome |-> outcome,
                          venv_python |-> venv_python])
    /\ actPc' = "start"
    /\ picked' = None /\ venv_python' = None /\ created' = FALSE /\ installed' = FALSE
    /\ outcome' = None /\ exit_status' = None
    /\ UNCHANGED <<candidates, host, envFile, playbook_path>>

----------------------------------------------------------------------------
(* main *)

\* main's return once the subcommand has ended
MainExit ==
    /\ outcome # None
    /\ exit_status = None
    /\ exit_status' = Some(main(outcome))
    /\ UNCHANGED <<outcome, envFile, playbook_path>>

----------------------------------------------------------------------------
(* Runtime helpers *)

PODMAN == <<"podman">>
DOCKER == <<"docker">>
ANSIBLE == <<"ansible">>
DEFAULT_KEY_BASENAME == <<"ansible_target">>
DEFAULT_SSH_DIR == <<"/", "ssh_keys">>
DEFAULT_SSH_PORT == 22
INVENTORY_FILE == <<"/", "inventory/main.yml">>
PLAYBOOK_FILE == <<"/", "playbooks/sample_playbook.yml">>
COLLECTIONS == << <<"ansible.posix">>, <<"community.general">> >>

\* truth value of an Optional[str]: None and "" are false
Truthy(opt) == opt # None /\ opt[1] # <<>>

\* a chain that asks the settings file first
Or3_PersistedFirst(a, b, c) == IF Truthy(b) THEN b[1] ELSE IF Truthy(a) THEN a[1] ELSE c

\* a or b or c, for Optional[str] a and b and a str c
Or3(a, b, c) == IF Truthy(a) THEN a[1] ELSE IF Truthy(b) THEN b[1] ELSE c

\* a condition that holds for equal values too
Overrides_AlsoWhenEqual(cli, persisted) == Truthy(cli) /\ Truthy(persisted)

\* the condition under which run logs an override warning
Overrides(cli, persisted) == Truthy(cli) /\ Truthy(persisted) /\ cli[1] # persisted[1]

\* a resolution that logs nothing
OverrideWarning_Silent(key, cli, persisted) == <<>>

\* the warning run logs for one setting, if any
OverrideWarning(key, cli, persisted) ==
    IF Overrides(cli, persisted)
    THEN <<[setting |-> key, persisted |-> persisted[1], override |-> cli[1]]>>
    ELSE <<>>

\* a port parser that falls back to the default port
ParsePort_DefaultsOnError(text) ==
    LET t == Strip(text)
    IN  IF t # <<>> /\ \A i \in DOMAIN t : IsDigit(t[i])
        THEN Some(DigitsValue(t))
        ELSE Some(DEFAULT_HOST_PORT)

\* int(text): surrounding whitespace, an optional sign, decimal digits; None stands
\* for ValueError (the port texts explored hold no underscore)
ParsePort(text) ==
    LET t == Strip(text)
        signed == t # <<>> /\ Head(t) \in {"+", "-"}
        digits == IF signed THEN Tail(t) ELSE t
    IN  IF digits = <<>> \/ \E i \in DOMAIN digits : ~IsDigit(digits[i]) THEN None
        ELSE IF signed /\ Head(t) = "-" THEN Some(0 - DigitsValue(digits))
        ELSE Some(DigitsValue(digits))

\* a search that ignores the preferred engine
SearchOrder_IgnoresPreferred(preferred) == <<PODMAN, DOCKER>>

\* the search order of detect_container_runtime
SearchOrder(preferred) ==
    LET ordered == IF Truthy(preferred) THEN <<preferred[1]>> ELSE <<>>
    IN  ordered \o SelectSeq(<<PODMAN, DOCKER>>,
                             LAMBDA r : \A i \in DOMAIN ordered : ordered[i] # r)

\* a search that gives up after its first candidate
FirstOnPath_HeadOnly(ordered, path) ==
    IF ordered # <<>> /\ Head(ordered) \in path THEN Some(Head(ordered)) ELSE None

RECURSIVE FirstOnPath(_, _)
FirstOnPath(ordered, path) ==
    IF ordered = <<>> THEN None
    ELSE IF Head(ordered) \in path THEN Some(Head(ordered))
    ELSE FirstOnPath(Tail(ordered), path)

\* a mount option that relabels for every engine
VolumeOpt_AlwaysRelabel(engine) == <<":ro,z">>

VolumeOpt(engine) == IF engine = PODMAN THEN <<":ro,z">> ELSE <<":ro">>

\* detect_container_runtime: <<runtime, volume_opt>>, both Optional
detect_container_runtime(preferred, path) ==
    LET found == FirstOnPath(SearchOrder(preferred), path)
    IN  IF found = None THEN <<None, None>>
        ELSE <<found, Some(VolumeOpt(found[1]))>>

\* a check that finds ansible everywhere
detect_ansible_Skipped(path) == TRUE

detect_ansible(path) == ANSIBLE \in path

----------------------------------------------------------------------------
(* Key files *)

\* a path of ssh_keys/ that holds no file
NoKey == 0
\* the key an earlier run left behind
OldKey == 1

\* the key pair the n-th ssh-keygen of this process generates: a new one each time
FreshKey(n) == n + 1

\* the ssh-keygen invocations in a command log
Keygens(l) == Cardinality({i \in DOMAIN l : l[i].cmd.verb = "keygen"})

\* an unlink that leaves the private key in place
UnlinkKeys_KeepPrivate(k) == [k EXCEPT !.pub = NoKey]

\* setup_ssh_keys before the key generation: the unlinks of key_path and pub_path
UnlinkKeys(k) == [k EXCEPT !.priv = NoKey, !.pub = NoKey]

\* a provision that leaves authorized_keys alone
KeysWritten_NoCopy(k, id) == [k EXCEPT !.priv = id, !.pub = id]

\* setup_ssh_keys after a successful ssh-keygen that wrote the pair `id`:
\* authorized_keys gets the bytes of the public key
KeysWritten(k, id) ==
    LET generated == [k EXCEPT !.priv = id, !.pub = id]
    IN  [generated EXCEPT !.auth = generated.pub]

----------------------------------------------------------------------------
(* External commands *)

KeygenCmd(key_path) ==
    [tool |-> <<"ssh-keygen">>, verb |-> "keygen", site |-> "setup_ssh_keys",
     args |-> [f |-> key_path]]

BuildCmd(engine, tag, root) ==
    [tool |-> engine, verb |-> "build", site |-> "setup_container",
     args |-> [tag |-> tag, context |-> root]]

StopCmd(engine, name, site) ==
    [tool |-> engine, verb |-> "stop", site |-> site, args |-> [name |-> name]]

StartCmd(engine, name, hport, cport, volume, image) ==
    [tool |-> engine, verb |-> "run", site |-> "setup_container",
     args |-> [name |-> name, publish |-> <<hport, cport>>, volume |-> volume,
               image |-> image]]

RolesCmd(requirements, roles_dir) ==
    [tool |-> <<"ansible-galaxy">>, verb |-> "install", site |-> "setup_roles",
     args |-> [role_file |-> requirements, roles_path |-> roles_dir]]

CollectionListCmd ==
    [tool |-> <<"ansible-galaxy">>, verb |-> "collection list",
     site |-> "setup_collections", args |-> [capture |-> TRUE]]

CollectionInstallCmd(name) ==
    [tool |-> <<"ansible-galaxy">>, verb |-> "collection install",
     site |-> "setup_collections", args |-> [name |-> name]]

PlaybookCmd(inventory, playbook, limit, env) ==
    [tool |-> <<"ansible-playbook">>, verb |-> "playbook", site |-> "run_playbook",
     args |-> [inventory |-> inventory, playbook |-> playbook, limit |-> limit,
               env |-> env]]

\* the log with one more command and its result
Issued(cmd, ok) == Append(log, [cmd |-> cmd, ok |-> ok, out |-> {}])

\* the engine's container of the effective name after a stop command for `name`
\* (a successful stop of that name leaves it stopped; a failing stop changes nothing)
AfterStop(state, name, effective, ok) ==
    IF ok /\ name = effective THEN "stopped" ELSE state

\* whether the engine can make a stop of `name` succeed: only a running container stops
CanStop(state, name, effective) == name # effective \/ state = "running"

----------------------------------------------------------------------------
(* parse_args *)

\* choices=["podman", "docker"] of --container-runtime
RuntimeChoices == {PODMAN, DOCKER}

\* parse_args of the run subcommand: a --container-runtime outside the choices
\* ends in SystemExit before main's try block is entered
ParseArgs ==
    /\ pc = "parse_args"
    /\ IF args.container_runtime # None /\ args.container_runtime[1] \notin RuntimeChoices
       THEN outcome' = Exited(ARGPARSE_ERROR) /\ pc' = "done"
       ELSE outcome' = outcome /\ pc' = "resolve"
    /\ UNCHANGED <<hostVars, container, keys, environ, resolved, host_port, runtime,
                   volume_opt, container_started, raising, coll, roles_action, roles, log,
                   exit_status, envFile, playbook_path>>

----------------------------------------------------------------------------
(* run: settings resolution and detection *)

\* run up to the port conversion: load, set_env_vars, the three settings, the warnings
RunResolve ==
    /\ pc = "resolve"
    /\ settings' = load_env_file(envFile)
    /\ environ' = DictUpdate(environ, settings')
    /\ runtime_preference' =
          Or3(args.container_runtime, Get(settings', <<"CONTAINER_RUNTIME">>),
              DEFAULT_CONTAINER_RUNTIME)
    /\ container_name' =
          Or3(args.container_name, Get(settings', <<"CONTAINER_NAME">>),
              DEFAULT_CONTAINER_NAME)
    /\ host_port_str' =
          Or3(args.container_host_port, Get(settings', <<"CONTAINER_HOST_PORT">>),
              IntToStr(DEFAULT_HOST_PORT))
    /\ warnings' =
          OverrideWarning("CONTAINER_RUNTIME", args.container_runtime,
                          Get(settings', <<"CONTAINER_RUNTIME">>))
          \o OverrideWarning("CONTAINER_NAME", args.container_name,
                             Get(settings', <<"CONTAINER_NAME">>))
          \o OverrideWarning("CONTAINER_HOST_PORT", args.container_host_port,
                             Get(settings', <<"CONTAINER_HOST_PORT">>))
    /\ pc' = "parse_port"
    /\ UNCHANGED <<hostVars, container, keys, host_port, runtime, volume_opt,
                   container_started, raising, coll, roles_action, roles, log, cmdVars>>

\* host_port = int(host_port_str), or the return of NO_RUNTIME
RunParsePort ==
    /\ pc = "parse_port"
    /\ host_port' = ParsePort(host_port_str)
    /\ IF host_port' = None
       THEN outcome' = Returned(RC_NO_RUNTIME) /\ pc' = "done"
       ELSE outcome' = outcome /\ pc' = "detect_runtime"
    /\ UNCHANGED <<hostVars, container, keys, environ, resolved, runtime, volume_opt,
                   container_started, raising, coll, roles_action, roles, log,
                   exit_status, envFile, playbook_path>>

\* detect_container_runtime(runtime_preference), or the return of NO_RUNTIME
RunDetectRuntime ==
    /\ pc = "detect_runtime"
    /\ runtime' = detect_container_runtime(Some(runtime_preference), onPath)[1]
    /\ volume_opt' = detect_container_runtime(Some(runtime_preference), onPath)[2]
    /\ IF runtime' = None
       THEN outcome' = Returned(RC_NO_RUNTIME) /\ pc' = "done"
       ELSE outcome' = outcome /\ pc' = "detect_ansible"
    /\ UNCHANGED <<hostVars, container, keys, environ, resolved, host_port,
                   container_started, raising, coll, roles_action, roles, log,
                   exit_status, envFile, playbook_path>>

\* detect_ansible(), or the return of MISSING_DEPENDENCY
RunDetectAnsible ==
    /\ pc = "detect_ansible"
    /\ IF ~detect_ansible(onPath)
       THEN outcome' = Returned(RC_MISSING_DEPENDENCY) /\ pc' = "done"
       ELSE outcome' = outcome /\ pc' = "ssh_keys"
    /\ UNCHANGED <<hostVars, container, keys, environ, resolved, host_port, runtime,
                   volume_opt, container_started, raising, coll, roles_action, roles, log,
                   exit_status, envFile, playbook_path>>

----------------------------------------------------------------------------
(* run: credentials, container, dependencies, dispatch, cleanup *)

\* a run in which a failing command does not end the try block
AfterRaise_GoesOn(site) ==
    IF site = "setup_container" THEN "roles"
    ELSE IF site \in {"setup_roles", "setup_collections"} THEN "playbook"
    ELSE "finally"

\* where control goes when a command inside run's try block raises
AfterRaise(site) == "finally"

\* a cleanup that runs on the success path only
CleanupDue_NotOnError(started) == started /\ ~raising

\* a cleanup that does not look at the flag
CleanupDue_Always(started) == TRUE

\* the `if container_started:` of run's finally block
CleanupDue(started) == started

\* a cleanup that stops the default name, not the effective one
CleanupTarget_Default(name) == DEFAULT_CONTAINER_NAME

\* the name run's cleanup stop is issued for
CleanupTarget(name) == name

\* a cleanup whose failing stop escapes
FinallyOutcome_StopEscalates(is_raising, stop_ok) ==
    IF is_raising \/ ~stop_ok THEN Raised ELSE Returned(RC_SUCCESS)

\* how run ends after its finally block: the pending exception goes on, a failing
\* cleanup stop is swallowed
FinallyOutcome(is_raising, stop_ok) ==
    IF is_raising THEN Raised ELSE Returned(RC_SUCCESS)

\* a run that never sets the container up
AfterKeys_AlwaysSkip(skip) == "roles"

\* a run that builds the container whatever --skip-container says
AfterKeys_NoSkip(skip) == "build"

\* the `if not args.skip_container:` of run's try block
AfterKeys(skip) == IF skip THEN "roles" ELSE "build"

\* setup_ssh_keys up to the key generation: the directory, the two unlinks
RunSshKeysRemove ==
    /\ pc = "ssh_keys"
    /\ keys' = UnlinkKeys(keys)
    /\ pc' = "ssh_keygen"
    /\ UNCHANGED <<hostVars, container, environ, resolved, host_port, runtime,
                   volume_opt, container_started, raising, coll, roles_action, roles, log,
                   cmdVars>>

\* ssh-keygen, then authorized_keys, setup_vault and container_started = False
RunSshKeygen ==
    /\ pc = "ssh_keygen"
    /\ \E ok \in BOOLEAN :
        /\ log' = Issued(KeygenCmd(playbook_path \o DEFAULT_SSH_DIR \o <<"/">>
                                   \o DEFAULT_KEY_BASENAME), ok)
        /\ IF ok
           THEN /\ keys' = [KeysWritten(keys, FreshKey(Keygens(log'))) EXCEPT
                                 !.vault = TRUE]
                /\ outcome' = outcome
                /\ pc' = AfterKeys(args.skip_container)
           ELSE /\ keys' = keys
                /\ outcome' = Raised
                /\ pc' = "done"
    /\ container_started' = FALSE
    /\ UNCHANGED <<hostVars, container, environ, resolved, host_port, runtime,
                   volume_opt, raising, coll, roles_action, roles,
                   exit_status, envFile, playbook_path>>

\* setup_container: the image build
RunContainerBuild ==
    /\ pc = "build"
    /\ \E ok \in BOOLEAN :
        /\ log' = Issued(BuildCmd(runtime[1], container_name, playbook_path), ok)
        /\ raising' = ~ok
        /\ pc' = IF ok THEN "stop_stale" ELSE AfterRaise("setup_container")
    /\ UNCHANGED <<hostVars, container, keys, environ, resolved, host_port, runtime,
                   volume_opt, container_started, coll, roles_action, roles, cmdVars>>

\* a stop whose failure ends setup_container
AfterStaleStop_Raises(ok) == IF ok THEN "start_container" ELSE "finally"

\* setup_container after the stop of the old container: its failure is swallowed
AfterStaleStop(ok) == "start_container"

\* setup_container: the stop of a container already running under the name
RunContainerStopStale ==
    /\ pc = "stop_stale"
    /\ \E ok \in BOOLEAN :
        /\ ok => CanStop(container, container_name, container_name)
        /\ log' = Issued(StopCmd(runtime[1], container_name, "setup_container"), ok)
        /\ container' = AfterStop(container, container_name, container_name, ok)
        /\ pc' = AfterStaleStop(ok)
    /\ UNCHANGED <<hostVars, keys, environ, resolved, host_port, runtime,
                   volume_opt, container_started, raising, coll, roles_action, roles, cmdVars>>

\* a flag that is never set
StartedFlag_NeverSet(ok) == FALSE

\* run's container_started after setup_container
StartedFlag(ok) == ok

\* setup_container: the detached start, then container_started = True
RunContainerStart ==
    /\ pc = "start_container"
    /\ \E ok \in BOOLEAN :
        /\ ok => container # "running"   \* the name is taken while the old one runs
        /\ log' = Issued(StartCmd(runtime[1], container_name, host_port[1],
                                  DEFAULT_SSH_PORT,
                                  playbook_path \o DEFAULT_SSH_DIR \o <<":/root/.ssh">>
                                  \o Or3(volume_opt, None, <<":ro">>),
                                  DEFAULT_CONTAINER_IMAGE), ok)
        /\ container' = IF ok THEN "running" ELSE container
        /\ container_started' = StartedFlag(ok)
        /\ raising' = ~ok
        /\ pc' = IF ok THEN "roles" ELSE AfterRaise("setup_container")
    /\ UNCHANGED <<hostVars, keys, environ, resolved, host_port, runtime,
                   volume_opt, coll, roles_action, roles, cmdVars>>

\* the states of roles/ and of the sibling checkout setup_roles tells apart:
\* roles/ exists, holds a directory or symlink, holds requirements.yml; the
\* sibling ans_dev_sandbox_role exists; roles/ans_dev_sandbox_role is missing
\* ("none"), a plain file ("file") or a symlink ("symlink", itself an entry)
RolesDirs ==
    {fs \in [exists : BOOLEAN, entries : BOOLEAN, requirements : BOOLEAN,
             sibling : BOOLEAN, link : {"none", "file", "symlink"}] :
        /\ (fs.entries \/ fs.requirements \/ fs.link # "none") => fs.exists
        /\ fs.link = "symlink" => fs.entries}

\* a project without roles/ and without sibling checkout
NoRoles ==
    [exists |-> FALSE, entries |-> FALSE, requirements |-> FALSE,
     sibling |-> FALSE, link |-> "none"]

\* a setup_roles that installs although the sibling checkout is there
RolesAction_IgnoresSibling(fs) ==
    IF ~fs.exists THEN "skip"
    ELSE IF fs.entries THEN "skip"
    ELSE IF ~fs.requirements THEN "skip"
    ELSE "install"

\* what setup_roles does on a project in state fs
RolesAction(fs) ==
    IF ~fs.exists THEN "skip"
    ELSE IF fs.entries THEN "skip"
    ELSE IF ~fs.requirements THEN "skip"
    ELSE IF fs.sibling THEN "link"
    ELSE "install"

\* the disk after setup_roles: linking replaces whatever is at
\* roles/ans_dev_sandbox_role by a symlink
RolesAfter(fs) ==
    IF RolesAction(fs) = "link"
    THEN [fs EXCEPT !.link = "symlink", !.entries = TRUE]
    ELSE fs

\* the projects run is started on: one without roles/, one with a role in
\* place, one linked from the sibling checkout, one installed
RunRoles ==
    {NoRoles,
     [NoRoles EXCEPT !.exists = TRUE, !.entries = TRUE],
     [NoRoles EXCEPT !.exists = TRUE, !.requirements = TRUE, !.sibling = TRUE],
     [NoRoles EXCEPT !.exists = TRUE, !.requirements = TRUE]}

\* setup_roles
RunSetupRoles ==
    /\ pc = "roles"
    /\ roles_action' = RolesAction(roles)
    /\ roles' = RolesAfter(roles)
    /\ \E ok \in BOOLEAN :
        IF RolesAction(roles) = "install"
        THEN /\ log' = Issued(RolesCmd(playbook_path \o <<"/", "roles/requirements.yml">>,
                                       playbook_path \o <<"/", "roles">>), ok)
             /\ raising' = ~ok
             /\ pc' = IF ok THEN "coll_list" ELSE AfterRaise("setup_roles")
        ELSE /\ ok
             /\ UNCHANGED <<log, raising>>
             /\ pc' = "coll_list"
    /\ coll' = 1
    /\ UNCHANGED <<hostVars, container, keys, environ, resolved, host_port, runtime,
                   volume_opt, container_started, cmdVars>>

\* a setup_collections that lists again after the last collection
AfterCollection_Rechecks(i) == "coll_list"

\* where setup_collections goes once collection i is present
AfterCollection(i) == IF i < Len(COLLECTIONS) THEN "coll_list" ELSE "playbook"

\* what `ansible-galaxy collection list` may answer when asked about `name`:
\* a listing with the name, a listing without it, a failure
ListResults(name) ==
    {[ok |-> TRUE, out |-> {name}], [ok |-> TRUE, out |-> {}], [ok |-> FALSE, out |-> {}]}

\* a check that takes a failed listing for an installed collection
has_collection_TrustsFailure(name, result) == ~result.ok \/ name \in result.out

\* _has_collection: False for a failed listing, else `name in result.stdout`
has_collection(name, result) == result.ok /\ name \in result.out

\* setup_collections: _has_collection(COLLECTIONS[coll])
RunCollectionList ==
    /\ pc = "coll_list"
    /\ \E res \in ListResults(COLLECTIONS[coll]) :
        /\ log' = Append(log, [cmd |-> CollectionListCmd, ok |-> res.ok, out |-> res.out])
        /\ IF has_collection(COLLECTIONS[coll], res)
           THEN /\ pc' = AfterCollection(coll)
                /\ coll' = IF coll < Len(COLLECTIONS) THEN coll + 1 ELSE coll
           ELSE /\ pc' = "coll_install"
                /\ coll' = coll
    /\ UNCHANGED <<hostVars, container, keys, environ, resolved, host_port, runtime,
                   volume_opt, container_started, raising, roles_action, roles, cmdVars>>

\* setup_collections: the install of COLLECTIONS[coll]
RunCollectionInstall ==
    /\ pc = "coll_install"
    /\ \E ok \in BOOLEAN :
        /\ log' = Issued(CollectionInstallCmd(COLLECTIONS[coll]), ok)
        /\ raising' = ~ok
        /\ pc' = IF ok THEN AfterCollection(coll) ELSE AfterRaise("setup_collections")
        /\ coll' = IF ok /\ coll < Len(COLLECTIONS) THEN coll + 1 ELSE coll
    /\ UNCHANGED <<hostVars, container, keys, environ, resolved, host_port, runtime,
                   volume_opt, container_started, roles_action, roles, cmdVars>>

\* a skip mode that always limits to localhost
RunLimit_SkipAlwaysLocal(a) == IF a.skip_container THEN Some(<<"localhost">>) ELSE a.limit

\* the limit run hands to run_playbook
RunLimit(a) ==
    IF a.skip_container /\ ~Truthy(a.limit) THEN Some(<<"localhost">>) ELSE a.limit

\* the extra_env of run
ExtraEnv(root) ==
    << <<<<"ANSIBLE_PRIVATE_KEY_FILE">>,
         root \o DEFAULT_SSH_DIR \o <<"/">> \o DEFAULT_KEY_BASENAME>>,
       <<<<"ANSIBLE_HOST_KEY_CHECKING">>, <<"False">>>>,
       <<<<"ANSIBLE_VAULT_PASSWORD_FILE">>, root \o DEFAULT_VAULT_PASSWORD_FILE>> >>

\* a dispatch in which the process environment wins over extra_env
run_playbook_EnvironWins(inventory, playbook, extra_env, limit) ==
    PlaybookCmd(inventory, playbook,
                IF Truthy(limit) THEN limit ELSE None,
                DictUpdate(extra_env, environ))

\* run_playbook: the command line carries -l only for a non-empty limit
run_playbook(inventory, playbook, extra_env, limit) ==
    PlaybookCmd(inventory, playbook,
                IF Truthy(limit) THEN limit ELSE None,
                DictUpdate(environ, extra_env))

\* the dispatch of the playbook
RunPlaybook ==
    /\ pc = "playbook"
    /\ \E ok \in BOOLEAN :
        /\ log' = Issued(run_playbook(playbook_path \o INVENTORY_FILE,
                                      playbook_path \o PLAYBOOK_FILE,
                                      ExtraEnv(playbook_path), RunLimit(args)), ok)
        /\ raising' = ~ok
        /\ pc' = IF ok THEN "finally" ELSE AfterRaise("run_playbook")
    /\ UNCHANGED <<hostVars, container, keys, environ, resolved, host_port, runtime,
                   volume_opt, container_started, coll, roles_action, roles, cmdVars>>

\* run's finally block and its end: the return of SUCCESS or the exception going on
RunFinally ==
    /\ pc = "finally"
    /\ IF CleanupDue(container_started)
       THEN \E ok \in BOOLEAN :
            /\ ok => CanStop(container, CleanupTarget(container_name), container_name)
            /\ log' = Issued(StopCmd(runtime[1], CleanupTarget(container_name),
                                     "cleanup"), ok)
            /\ container' = AfterStop(container, CleanupTarget(container_name),
                                      container_name, ok)
            /\ outcome' = FinallyOutcome(raising, ok)
       ELSE /\ UNCHANGED <<log, container>>
            /\ outcome' = FinallyOutcome(raising, TRUE)
    /\ pc' = "done"
    /\ UNCHANGED <<hostVars, keys, environ, resolved, host_port, runtime,
                   volume_opt, container_started, raising, coll, roles_action, roles,
                   exit_status, envFile, playbook_path>>

----------------------------------------------------------------------------
(* Direct calls of detect_container_runtime and of setup_ssh_keys *)

\* runtime, volume_opt = detect_container_runtime(preferred_engine)
DetectRuntime ==
    /\ pc = "detect"
    /\ runtime' = detect_container_runtime(preferred_engine, onPath)[1]
    /\ volume_opt' = detect_container_runtime(preferred_engine, onPath)[2]
    /\ pc' = "detected"
    /\ UNCHANGED <<hostVars, container, keys, environ, resolved, host_port,
                   container_started, raising, coll, roles_action, roles, log, cmdVars>>

\* setup_ssh_keys from ssh-keygen on, called on its own: a failing tool raises,
\* a successful one is followed by the authorized_keys copy and the return
SshKeygen ==
    /\ pc = "ssh_keygen"
    /\ \E ok \in BOOLEAN :
        /\ log' = Issued(KeygenCmd(playbook_path \o DEFAULT_SSH_DIR \o <<"/">>
                                   \o DEFAULT_KEY_BASENAME), ok)
        /\ keys' = IF ok THEN KeysWritten(keys, FreshKey(Keygens(log'))) ELSE keys
        /\ pc' = IF ok THEN "keys_returned" ELSE "keys_raised"
    /\ UNCHANGED <<hostVars, container, environ, resolved, host_port, runtime,
                   volume_opt, container_started, raising, coll, roles_action, roles, cmdVars>>

\* setup_roles(playbook_path) called on its own: a failing installer raises
SetupRoles ==
    /\ pc = "setup_roles"
    /\ roles_action' = RolesAction(roles)
    /\ roles' = RolesAfter(roles)
    /\ \E ok \in BOOLEAN :
        IF RolesAction(roles) = "install"
        THEN /\ log' = Issued(RolesCmd(playbook_path \o <<"/", "roles/requirements.yml">>,
                                       playbook_path \o <<"/", "roles">>), ok)
             /\ pc' = IF ok THEN "roles_returned" ELSE "roles_raised"
        ELSE /\ ok
             /\ UNCHANGED log
             /\ pc' = "roles_returned"
    /\ UNCHANGED <<hostVars, container, keys, environ, resolved, host_port, runtime,
                   volume_opt, container_started, raising, coll, cmdVars>>

\* the next call of setup_ssh_keys on the same directory
CallSetupSshKeys ==
    /\ pc \in {"keys_returned", "keys_raised"}
    /\ Keygens(log) < MaxCalls
    /\ pc' = "ssh_keys"
    /\ UNCHANGED <<hostVars, container, keys, environ, resolved, host_port, runtime,
                   volume_opt, container_started, raising, coll, roles_action, roles, log,
                   cmdVars>>

----------------------------------------------------------------------------
(* Specifications *)

\* run's command line and locals before run is entered
RunLocalsIdle ==
    /\ args = [container_runtime |-> None, container_name |-> None,
               container_host_port |-> None, skip_container |-> FALSE, limit |-> None]
    /\ container = "absent"
    /\ environ = <<>> /\ settings = <<>>
    /\ runtime_preference = <<>> /\ container_name = <<>> /\ host_port_str = <<>>
    /\ host_port = None /\ warnings = <<>>
    /\ runtime = None /\ volume_opt = None
    /\ container_started = FALSE /\ raising = FALSE /\ coll = 1
    /\ roles_action = "none" /\ roles = NoRoles /\ log = <<>>

RunIdle ==
    /\ pc = "idle"
    /\ args = [container_runtime |-> None, container_name |-> None,
               container_host_port |-> None, skip_container |-> FALSE, limit |-> None]
    /\ onPath = {}
    /\ container = "absent"
    /\ keys = [priv |-> NoKey, pub |-> NoKey, auth |-> NoKey, vault |-> FALSE]
    /\ preferred_engine = None
    /\ environ = <<>> /\ settings = <<>>
    /\ runtime_preference = <<>> /\ container_name = <<>> /\ host_port_str = <<>>
    /\ host_port = None /\ warnings = <<>>
    /\ runtime = None /\ volume_opt = None
    /\ container_started = FALSE /\ raising = FALSE /\ coll = 1
    /\ roles_action = "none" /\ roles = NoRoles /\ log = <<>>

\* load_env_file, write_env_file, load_env_file over every short settings file
InitEnv ==
    /\ envPc = "start"
    /\ fileF \in {NoFile} \cup {File(t) : t \in Texts(MaxFileLen)}
    /\ data = <<>> /\ fileG = NoFile /\ data2 = <<>>
    /\ ActIdle /\ CmdIdle /\ RunIdle

NextEnv ==
    \/ LoadF /\ UNCHANGED <<actVars, cmdVars, runVars>>
    \/ WriteG /\ UNCHANGED <<actVars, cmdVars, runVars>>
    \/ LoadG /\ UNCHANGED <<actVars, cmdVars, runVars>>

SpecEnv == InitEnv /\ [][NextEnv]_vars

\* write_env_file over every small dict, in every insertion order
InitWrite ==
    /\ envPc = "loaded"
    /\ data \in Dicts(MaxPairs)
    /\ fileF = NoFile /\ fileG = NoFile /\ data2 = <<>>
    /\ ActIdle /\ CmdIdle /\ RunIdle

NextWrite ==
    \/ WriteG /\ UNCHANGED <<actVars, cmdVars, runVars>>
    \/ LoadG /\ UNCHANGED <<actVars, cmdVars, runVars>>

SpecWrite == InitWrite /\ [][NextWrite]_vars

\* select_python over every short candidate list
InitSelect ==
    /\ actPc = "select"
    /\ candidates \in Cands(MaxCands)
    /\ picked = None
    /\ host = [venv_exists |-> FALSE, unit_testing |-> FALSE]
    /\ venv_python = None /\ created = FALSE /\ installed = FALSE
    /\ first_run = None
    /\ EnvIdle /\ CmdIdle /\ RunIdle

NextSelect == SelectPython /\ UNCHANGED <<envVars, cmdVars, runVars>>

SpecSelect == InitSelect /\ [][NextSelect]_vars

\* the candidate lists and settings files activate is run on
ActCands ==
    UNION {{[i \in 1..k |-> <<i, vs[i]>>] :
              vs \in [1..k -> {<<3, 9, 1>>, <<3, 12, 0>>, <<3, 15, 0>>}]} : k \in 0..2}

ActFiles ==
    { NoFile,
      File(<<>>),
      File(<<"b", "=", "1", NL>>),
      File(<<"CONTAINER_RUNTIME", "=", "docker", NL, "#", "a", NL, "a", "=", "1", NL>>),
      File(<<"PLAYBOOK_PATH", "=", "/", "o", NL, "CONTAINER_NAME", "=", "w", "e", "b", NL,
             "CONTAINER_HOST_PORT", "=", "8", "0", "2", "2", NL, "b", "=", NL>>),
      File(<<"VENV_PYTHON", "=", "/", "o", NL, " ", "b", " ", "=", " ", "1", " ", NL,
             "=", "a", NL>>) }

InitActivate ==
    /\ actPc = "start"
    /\ candidates \in ActCands
    /\ host \in [venv_exists : BOOLEAN, unit_testing : BOOLEAN]
    /\ picked = None /\ venv_python = None /\ created = FALSE /\ installed = FALSE
    /\ first_run = None
    /\ outcome = None /\ exit_status = None
    /\ envFile \in ActFiles
    /\ playbook_path \in {<<"/p">>, <<"/q", " ", "r">>, <<"/s", " ">>}
    /\ EnvIdle /\ RunIdle

NextActivate ==
    \/ ActivateStart /\ UNCHANGED <<envVars, runVars>>
    \/ EnsureVenv /\ UNCHANGED <<envVars, runVars>>
    \/ CreateVenv /\ UNCHANGED <<envVars, runVars>>
    \/ InstallRequirements /\ UNCHANGED <<envVars, runVars>>
    \/ WriteEnv /\ UNCHANGED <<envVars, runVars>>
    \/ ActivateAgain /\ UNCHANGED <<envVars, runVars>>
    \/ MainExit /\ UNCHANGED <<envVars, actVars, runVars>>

SpecActivate == InitActivate /\ [][NextActivate]_vars

\* the command lines and settings files run is started with: one setting at a time
\* is given on the command line, in the file, or both; an option may be given an
\* empty value (--container-name "") and a settings line may hold none (KEY=);
\* one file holds other keys (more)
PORT_CLI == <<"8", "0", "2", "2">>
PORT_ENV == <<"2", "2", "2", "2">>
PORT_BAD == <<"a", "b">>

SettingCases ==
    {[cli |-> [rt |-> a, name |-> None, port |-> None],
      env |-> [rt |-> b, name |-> None, port |-> None, more |-> FALSE]] :
        a \in {None, Some(PODMAN), Some(DOCKER), Some(<<"nerdctl">>)},
        b \in {None, Some(PODMAN), Some(DOCKER), Some(<<>>)}}
    \cup
    {[cli |-> [rt |-> None, name |-> a, port |-> None],
      env |-> [rt |-> None, name |-> b, port |-> None, more |-> FALSE]] :
        a \in {None, Some(<<"web">>), Some(<<>>)},
        b \in {None, Some(<<"db">>), Some(<<"web">>), Some(<<>>)}}
    \cup
    {[cli |-> [rt |-> None, name |-> None, port |-> a],
      env |-> [rt |-> None, name |-> None, port |-> b, more |-> FALSE]] :
        a \in {None, Some(PORT_CLI), Some(PORT_BAD), Some(<<>>)},
        b \in {None, Some(PORT_ENV), Some(<<>>)}}
    \cup
    {[cli |-> [rt |-> None, name |-> None, port |-> None],
      env |-> [rt |-> None, name |-> None, port |-> None, more |-> TRUE]]}

\* the KEY=VALUE line of a persisted setting, nothing for an absent one
SettingLine(key, value) ==
    IF value = None THEN <<>> ELSE <<key, "=">> \o value[1] \o <<NL>>

\* settings lines for keys run's extra_env sets too, and for one it does not set
AnsibleLines ==
    <<"ANSIBLE_HOST_KEY_CHECKING", "=", "True", NL,
      "ANSIBLE_LOG_PATH", "=", "ansible.log", NL,
      "ANSIBLE_VAULT_PASSWORD_FILE", "=", "/", "o", NL>>

SettingsFile(env) ==
    IF env.rt = None /\ env.name = None /\ env.port = None /\ ~env.more THEN NoFile
    ELSE File(SettingLine("CONTAINER_RUNTIME", env.rt)
              \o SettingLine("CONTAINER_NAME", env.name)
              \o SettingLine("CONTAINER_HOST_PORT", env.port)
              \o (IF env.more THEN AnsibleLines ELSE <<>>))

InitRun ==
    /\ pc = "parse_args"
    /\ \E c \in SettingCases, skip \in BOOLEAN,
          lim \in {None, Some(<<"web">>), Some(<<>>)} :
        /\ args = [container_runtime |-> c.cli.rt, container_name |-> c.cli.name,
                   container_host_port |-> c.cli.port, skip_container |-> skip,
                   limit |-> lim]
        /\ envFile = SettingsFile(c.env)
    /\ onPath \in SUBSET {PODMAN, DOCKER, ANSIBLE}
    /\ container \in {"absent", "running"}
    /\ keys \in {[priv |-> NoKey, pub |-> NoKey, auth |-> NoKey, vault |-> FALSE],
                 [priv |-> OldKey, pub |-> OldKey, auth |-> OldKey, vault |-> TRUE]}
    /\ preferred_engine = None
    /\ environ = <<>> /\ settings = <<>>
    /\ runtime_preference = <<>> /\ container_name = <<>> /\ host_port_str = <<>>
    /\ host_port = None /\ warnings = <<>>
    /\ runtime = None /\ volume_opt = None
    /\ container_started = FALSE /\ raising = FALSE /\ coll = 1
    /\ roles_action = "none" /\ roles \in RunRoles /\ log = <<>>
    /\ outcome = None /\ exit_status = None
    /\ playbook_path = <<"/p">>
    /\ EnvIdle /\ ActIdle

NextRun ==
    \/ ParseArgs /\ UNCHANGED <<envVars, actVars>>
    \/ RunResolve /\ UNCHANGED <<envVars, actVars>>
    \/ RunParsePort /\ UNCHANGED <<envVars, actVars>>
    \/ RunDetectRuntime /\ UNCHANGED <<envVars, actVars>>
    \/ RunDetectAnsible /\ UNCHANGED <<envVars, actVars>>
    \/ RunSshKeysRemove /\ UNCHANGED <<envVars, actVars>>
    \/ RunSshKeygen /\ UNCHANGED <<envVars, actVars>>
    \/ RunContainerBuild /\ UNCHANGED <<envVars, actVars>>
    \/ RunContainerStopStale /\ UNCHANGED <<envVars, actVars>>
    \/ RunContainerStart /\ UNCHANGED <<envVars, actVars>>
    \/ RunSetupRoles /\ UNCHANGED <<envVars, actVars>>
    \/ RunCollectionList /\ UNCHANGED <<envVars, actVars>>
    \/ RunCollectionInstall /\ UNCHANGED <<envVars, actVars>>
    \/ RunPlaybook /\ UNCHANGED <<envVars, actVars>>
    \/ RunFinally /\ UNCHANGED <<envVars, actVars>>
    \/ MainExit /\ UNCHANGED <<envVars, actVars, runVars>>

SpecRun == InitRun /\ [][NextRun]_vars

\* the run workflow in which the code goes on and every external command that
\* was invoked returns: no step that stays possible is put off for ever
\* (started without settings file and without limit, on every host: with the
\* defaults, with a runtime argparse rejects, with a port int() rejects)
InitRunLive ==
    /\ InitRun
    /\ envFile = NoFile
    /\ args.limit = None /\ args.container_name = None
    /\ args.container_runtime \in {None, Some(<<"nerdctl">>)}
    /\ args.container_host_port \in {None, Some(PORT_BAD)}
    /\ keys.priv = NoKey

SpecRunLive == InitRunLive /\ [][NextRun]_vars /\ WF_vars(NextRun)

\* the engines a caller may prefer and a host may hold
NERDCTL == <<"nerdctl">>
Preferences == {None, Some(<<>>), Some(PODMAN), Some(DOCKER), Some(NERDCTL)}

\* detect_container_runtime called with every preference on every host
InitDetect ==
    /\ pc = "detect"
    /\ preferred_engine \in Preferences
    /\ onPath \in SUBSET {PODMAN, DOCKER, NERDCTL, ANSIBLE}
    /\ keys = [priv |-> NoKey, pub |-> NoKey, auth |-> NoKey, vault |-> FALSE]
    /\ RunLocalsIdle
    /\ EnvIdle /\ ActIdle /\ CmdIdle

NextDetect == DetectRuntime /\ UNCHANGED <<envVars, actVars>>

SpecDetect == InitDetect /\ [][NextDetect]_vars

\* setup_ssh_keys called up to MaxCalls times on a directory in any state
InitKeys ==
    /\ pc = "ssh_keys"
    /\ keys \in [priv : {NoKey, OldKey}, pub : {NoKey, OldKey}, auth : {NoKey, OldKey},
                  vault : BOOLEAN]
    /\ onPath = {} /\ preferred_engine = None
    /\ RunLocalsIdle
    /\ outcome = None /\ exit_status = None /\ envFile = NoFile
    /\ playbook_path \in {<<"/p">>, <<"/q", " ", "r">>}
    /\ EnvIdle /\ ActIdle

NextKeys ==
    \/ RunSshKeysRemove /\ UNCHANGED <<envVars, actVars>>
    \/ SshKeygen /\ UNCHANGED <<envVars, actVars>>
    \/ CallSetupSshKeys /\ UNCHANGED <<envVars, actVars>>

SpecKeys == InitKeys /\ [][NextKeys]_vars

\* setup_roles called on a project in every state of roles/
InitRoles ==
    /\ pc = "setup_roles"
    /\ roles \in RolesDirs
    /\ args = [container_runtime |-> None, container_name |-> None,
               container_host_port |-> None, skip_container |-> FALSE, limit |-> None]
    /\ onPath = {} /\ preferred_engine = None
    /\ container = "absent"
    /\ keys = [priv |-> NoKey, pub |-> NoKey, auth |-> NoKey, vault |-> FALSE]
    /\ environ = <<>> /\ settings = <<>>
    /\ runtime_preference = <<>> /\ container_name = <<>> /\ host_port_str = <<>>
    /\ host_port = None /\ warnings = <<>>
    /\ runtime = None /\ volume_opt = None
    /\ container_started = FALSE /\ raising = FALSE /\ coll = 1
    /\ roles_action = "none" /\ log = <<>>
    /\ outcome = None /\ exit_status = None /\ envFile = NoFile
    /\ playbook_path \in {<<"/p">>, <<"/q", " ", "r">>, <<"/s">>}
    /\ EnvIdle /\ ActIdle

NextRoles == SetupRoles /\ UNCHANGED <<envVars, actVars>>

SpecRoles == InitRoles /\ [][NextRoles]_vars
----------------------------------------------------------------------------
(* Properties of the run workflow (SpecRun) *)

IsStartOk(e) == e.cmd.verb = "run" /\ e.ok
IsStop(e) == e.cmd.verb = "stop"
IsCleanupStop(e) == e.cmd.verb = "stop" /\ e.cmd.site = "cleanup"
IsDispatch(e) == e.cmd.verb = "playbook"
IsInstall(e) == e.cmd.verb \in {"install", "collection install"}

\* the container start succeeded in this run
Started == \E i \in DOMAIN log : IsStartOk(log[i])

\* the dispatch was issued after a successful start, and failed
DispatchFailedAfterStart ==
    \E i, j \in DOMAIN log : i < j /\ IsStartOk(log[i]) /\ IsDispatch(log[j]) /\ ~log[j].ok

\* the stop commands for the effective container name issued after position i
StopsAfter(i) ==
    {k \in DOMAIN log : k > i /\ IsStop(log[k]) /\ log[k].cmd.args.name = container_name}

\* C1: when the container start succeeds and the dispatch then fails, exactly one
\* stop command for the container name has been issued after the start by the time
\* run ends, run ends by raising, and main's exit status is not 0.
C1_StopOnceOnDispatchFailure ==
    (outcome # None /\ DispatchFailedAfterStart) =>
        /\ \A i \in DOMAIN log : IsStartOk(log[i]) => Cardinality(StopsAfter(i)) = 1
        /\ outcome = Raised
        /\ exit_status # None => exit_status[1] # RC_SUCCESS

C1_Witness ==
    /\ exit_status # None /\ exit_status[1] = RC_UNHANDLED_EXCEPTION
    /\ DispatchFailedAfterStart
    /\ \E k \in DOMAIN log : IsCleanupStop(log[k])

\* C2: once setup_container has succeeded, run does not end (by return or by
\* exception) before the cleanup stop of that container has been issued to the
\* detected engine, whichever later step failed.
C2_CleanupAfterStart ==
    outcome # None =>
        \A i \in DOMAIN log : IsStartOk(log[i]) =>
            \E k \in DOMAIN log :
                /\ k > i
                /\ IsCleanupStop(log[k])
                /\ log[k].cmd.args.name = container_name
                /\ log[k].cmd.tool = runtime[1]

C2_Witness ==
    /\ outcome = Raised
    /\ Started
    /\ \E j \in DOMAIN log : IsInstall(log[j]) /\ ~log[j].ok
    /\ \A j \in DOMAIN log : ~IsDispatch(log[j])

\* C3 as stated: whenever run has ended and the container was started in this run,
\* the container is stopped.
C3_StoppedAtEnd == (outcome # None /\ Started) => container = "stopped"

\* C3, amended: whenever run has ended and the container was started in this run,
\* the cleanup stop for it has been issued, and the container is stopped unless
\* that stop command failed.
C3_StoppedUnlessStopFailed ==
    (outcome # None /\ Started) =>
        \E k \in DOMAIN log :
            /\ IsCleanupStop(log[k])
            /\ log[k].cmd.args.name = container_name
            /\ log[k].ok => container = "stopped"
            /\ container # "stopped" => (~log[k].ok /\ container = "running")

C3_Witness ==
    /\ outcome = Raised /\ Started /\ container = "stopped"
    /\ \E j \in DOMAIN log : IsDispatch(log[j]) /\ ~log[j].ok

\* C4: when run ends without the container start having succeeded, no cleanup stop
\* has been issued; and unless the container was skipped, run has then failed: it
\* returned a non-zero status or raised, and main's exit status is not 0.
C4_NoCleanupBeforeStart ==
    (outcome # None /\ ~Started) =>
        /\ \A k \in DOMAIN log : ~IsCleanupStop(log[k])
        /\ ~args.skip_container =>
              /\ outcome # Returned(RC_SUCCESS)
              /\ exit_status # None => exit_status[1] # RC_SUCCESS

C4_Witness ==
    /\ exit_status # None
    /\ ~args.skip_container
    /\ \E i \in DOMAIN log : log[i].cmd.verb = "run" /\ ~log[i].ok
    /\ \E i \in DOMAIN log : IsStop(log[i])

\* C5: a failing cleanup stop leaves the outcome to the dispatch: after a
\* successful dispatch run returns 0, after a failed dispatch run raises the
\* dispatch failure (exit status 1).
C5_StopFailureSwallowed ==
    (outcome # None /\ \E k \in DOMAIN log : IsCleanupStop(log[k]) /\ ~log[k].ok) =>
        \A j \in DOMAIN log : IsDispatch(log[j]) =>
            /\ log[j].ok =>
                  /\ outcome = Returned(RC_SUCCESS)
                  /\ exit_status # None => exit_status[1] = RC_SUCCESS
            /\ ~log[j].ok =>
                  /\ outcome = Raised
                  /\ exit_status # None => exit_status[1] = RC_UNHANDLED_EXCEPTION

C5_Witness ==
    /\ exit_status = Some(RC_SUCCESS)
    /\ container = "running"
    /\ \E k \in DOMAIN log : IsCleanupStop(log[k]) /\ ~log[k].ok
    /\ \E j \in DOMAIN log : IsDispatch(log[j]) /\ log[j].ok

----------------------------------------------------------------------------
(* Properties of the settings resolution (SpecRun) *)

\* run has resolved its three settings
ResolvedDone ==
    pc \notin {"idle", "parse_args", "resolve"} /\ outcome # Exited(ARGPARSE_ERROR)

\* what the settings file holds under a key (Optional)
Persisted(key) == Get(settings, <<key>>)

\* the three settings: key, command-line value, effective value, default
SettingRows ==
    { [key |-> "CONTAINER_RUNTIME", cli |-> args.container_runtime,
       effective |-> runtime_preference, default |-> <<"podman">>],
      [key |-> "CONTAINER_NAME", cli |-> args.container_name,
       effective |-> container_name, default |-> <<"ansible_target">>],
      [key |-> "CONTAINER_HOST_PORT", cli |-> args.container_host_port,
       effective |-> host_port_str, default |-> <<"2", "2", "2", "2">>] }

\* the start command names the effective container and publishes the effective port
StartUsesEffective ==
    \A i \in DOMAIN log : log[i].cmd.verb = "run" =>
        /\ log[i].cmd.args.name = container_name
        /\ log[i].cmd.args.publish[1] = DigitsValue(host_port_str)

\* C11 as stated: each effective setting is the command-line value if one was
\* supplied, otherwise the persisted value if the file holds the key, otherwise the
\* default (podman, ansible_target, 2222).
C11_CliPersistedDefault ==
    ResolvedDone =>
        \A r \in SettingRows :
            r.effective = IF r.cli # None THEN r.cli[1]
                          ELSE IF Persisted(r.key) # None THEN Persisted(r.key)[1]
                          ELSE r.default

\* C11, amended: each effective setting is the command-line value if a non-empty
\* one was supplied, otherwise the persisted value if the file holds a non-empty
\* one, otherwise the default (podman, ansible_target, 2222); the container start
\* is issued with the effective name and port.
C11_NonEmptyCliPersistedDefault ==
    ResolvedDone =>
        /\ \A r \in SettingRows :
              r.effective =
                  IF r.cli # None /\ r.cli[1] # <<>> THEN r.cli[1]
                  ELSE IF Persisted(r.key) # None /\ Persisted(r.key)[1] # <<>>
                       THEN Persisted(r.key)[1]
                       ELSE r.default
        /\ StartUsesEffective

C11_Witness ==
    /\ args.container_name = Some(<<>>)
    /\ Persisted("CONTAINER_NAME") = Some(<<"db">>)
    /\ \E i \in DOMAIN log : IsStartOk(log[i]) /\ log[i].cmd.args.name = <<"db">>

\* the warning of one setting is among the warnings logged
Warned(r) ==
    \E i \in DOMAIN warnings :
        /\ warnings[i].setting = r.key
        /\ warnings[i].persisted = Persisted(r.key)[1]
        /\ warnings[i].override = r.cli[1]

\* nothing that depends on the settings has happened yet
NoEffectYet == runtime = None /\ host_port = None /\ log = <<>>

\* C12 as stated: when the file holds a value for a setting and the command line
\* supplies a different one, the warning naming the setting, the persisted value
\* and the override has been logged once the settings are resolved, the effective
\* value is the override, and the warnings are there before engine detection and
\* before any command.
C12_WarnsBeforeOverride ==
    ResolvedDone =>
        /\ \A r \in SettingRows :
              (Persisted(r.key) # None /\ r.cli # None /\ r.cli[1] # Persisted(r.key)[1])
                  => (Warned(r) /\ r.effective = r.cli[1])
        /\ pc = "parse_port" => NoEffectYet

\* C12, amended: the same, for a non-empty persisted value and a different
\* non-empty command-line value.
C12_WarnsBeforeNonEmptyOverride ==
    ResolvedDone =>
        /\ \A r \in SettingRows :
              ( /\ Persisted(r.key) # None /\ Persisted(r.key)[1] # <<>>
                /\ r.cli # None /\ r.cli[1] # <<>>
                /\ r.cli[1] # Persisted(r.key)[1] )
                  => (Warned(r) /\ r.effective = r.cli[1])
        /\ pc = "parse_port" => NoEffectYet

C12_Witness ==
    /\ pc = "parse_port"
    /\ NoEffectYet
    /\ args.container_host_port = Some(PORT_CLI)
    /\ Persisted("CONTAINER_HOST_PORT") = Some(PORT_ENV)
    /\ warnings = <<[setting |-> "CONTAINER_HOST_PORT", persisted |-> PORT_ENV,
                     override |-> PORT_CLI]>>
    /\ host_port_str = PORT_CLI

\* the override warnings logged for a setting
WarningsOf(key) == {i \in DOMAIN warnings : warnings[i].setting = key}

\* C36: an override warning is logged for a setting only when the command line
\* and the settings file both hold a value for it and the two differ; without a
\* command-line value, without a persisted value, or with equal values there is
\* none. Every warning is of one of the three settings, at most one each.
C36_WarnsOnlyOnConflict ==
    /\ \A r \in SettingRows :
          /\ WarningsOf(r.key) # {} =>
                /\ r.cli # None /\ Persisted(r.key) # None
                /\ r.cli[1] # Persisted(r.key)[1]
          /\ (r.cli = None \/ Persisted(r.key) = None \/ r.cli = Persisted(r.key))
                => WarningsOf(r.key) = {}
          /\ Cardinality(WarningsOf(r.key)) <= 1
    /\ \A i \in DOMAIN warnings : \E r \in SettingRows : warnings[i].setting = r.key

C36_Witness ==
    /\ pc = "parse_port"
    /\ args.container_name = Some(<<"web">>)
    /\ Persisted("CONTAINER_NAME") = Some(<<"web">>)
    /\ container_name = <<"web">>
    /\ warnings = <<>>

----------------------------------------------------------------------------
(* Properties of run's early exits, skip mode and main (SpecRun) *)

\* a text int() accepts: blanks around an optional sign and at least one digit
IsIntegerText(text) ==
    LET t == Strip(text)
    IN  \E sign \in {<<>>, <<"+">>, <<"-">>} :
            /\ Len(t) > Len(sign)
            /\ SubSeq(t, 1, Len(sign)) = sign
            /\ \A i \in (Len(sign) + 1)..Len(t) : IsDigit(t[i])

\* no engine run looks for is on the host
NoEngineOnHost == \A e \in {runtime_preference, <<"podman">>, <<"docker">>} : e \notin onPath

\* no key was generated and removed, no command was issued
NothingDone ==
    /\ log = <<>>
    /\ keys.priv \in {NoKey, OldKey} /\ keys.pub = keys.priv /\ keys.auth = keys.priv
    /\ container_started = FALSE

\* C15: run returns 4 when the resolved host port is not an integer, 4 when the
\* port is one and no container engine is found, and 2 when both are fine and
\* ansible is not on PATH; on each of these exits no key has been generated and
\* no container command or dispatch has been issued, and main exits with the
\* same status.
C15_EarlyExitStatus ==
    (outcome # None /\ ResolvedDone) =>
        /\ ~IsIntegerText(host_port_str) => outcome = Returned(4)
        /\ (IsIntegerText(host_port_str) /\ NoEngineOnHost) => outcome = Returned(4)
        /\ (IsIntegerText(host_port_str) /\ ~NoEngineOnHost /\ <<"ansible">> \notin onPath)
              => outcome = Returned(2)
        /\ (~IsIntegerText(host_port_str) \/ NoEngineOnHost \/ <<"ansible">> \notin onPath)
              => /\ NothingDone
                 /\ exit_status # None => exit_status = Some(outcome[1].code)

C15_Witness ==
    /\ exit_status = Some(2)
    /\ outcome = Returned(2)
    /\ runtime = Some(<<"docker">>)
    /\ keys.priv = OldKey
    /\ log = <<>>

\* C35: with --skip-container, a run whose resolved host port is not an integer
\* or whose host has no container engine returns 4, and main exits with 4; no
\* key has been removed or generated and nothing, the dispatch included, has
\* been issued.
C35_SkipModeStillNeedsEngineAndPort ==
    ( /\ outcome # None /\ ResolvedDone
      /\ args.skip_container
      /\ (~IsIntegerText(host_port_str) \/ NoEngineOnHost) ) =>
        /\ outcome = Returned(RC_NO_RUNTIME)
        /\ RC_NO_RUNTIME = 4
        /\ log = <<>>
        /\ keys \in {[priv |-> NoKey, pub |-> NoKey, auth |-> NoKey, vault |-> FALSE],
                     [priv |-> OldKey, pub |-> OldKey, auth |-> OldKey, vault |-> TRUE]}
        /\ exit_status # None => exit_status = Some(4)

C35_Witness ==
    /\ args.skip_container
    /\ onPath = {<<"ansible">>}
    /\ IsIntegerText(host_port_str)
    /\ outcome = Returned(4)
    /\ exit_status = Some(4)
    /\ keys.priv = OldKey /\ keys.auth = OldKey
    /\ log = <<>>

\* the -l flag of a dispatch equals the caller's limit; an empty limit expression
\* reaches ansible-playbook as no flag
SameLimit(flag, limit) == flag = limit \/ (limit = Some(<<>>) /\ flag = None)

\* C16 as stated: in skip mode with no --limit the dispatch is limited to
\* "localhost"; a --limit that was supplied is passed unchanged, in skip mode and
\* in container mode.
C16_LimitDefaultsToLocalhost ==
    \A i \in DOMAIN log : IsDispatch(log[i]) =>
        /\ (args.skip_container /\ args.limit = None)
              => log[i].cmd.args.limit = Some(<<"localhost">>)
        /\ args.limit # None => SameLimit(log[i].cmd.args.limit, args.limit)

\* C16, amended: in skip mode with no --limit or an empty one the dispatch is
\* limited to "localhost"; a non-empty --limit is passed unchanged, in skip mode
\* and in container mode.
C16_NonEmptyLimitUnchanged ==
    \A i \in DOMAIN log : IsDispatch(log[i]) =>
        /\ (args.skip_container /\ (args.limit = None \/ args.limit = Some(<<>>)))
              => log[i].cmd.args.limit = Some(<<"localhost">>)
        /\ (args.limit # None /\ args.limit # Some(<<>>))
              => log[i].cmd.args.limit = args.limit

C16_Witness ==
    /\ args.skip_container /\ args.limit = None
    /\ \E i \in DOMAIN log :
          IsDispatch(log[i]) /\ log[i].ok /\ log[i].cmd.args.limit = Some(<<"localhost">>)
    /\ outcome = Returned(RC_SUCCESS)

IsEngineCmd(e) == e.cmd.verb \in {"build", "stop", "run"}

\* C17: in skip mode run issues no container engine command (build, stop of a
\* stale container, start, cleanup stop) on any path, and the container is left
\* as it was.
C17_SkipIssuesNoEngineCommand ==
    args.skip_container =>
        /\ \A i \in DOMAIN log : ~IsEngineCmd(log[i])
        /\ container_started = FALSE
        /\ container \in {"absent", "running"}

C17_Witness ==
    /\ args.skip_container
    /\ exit_status = Some(RC_UNHANDLED_EXCEPTION)
    /\ container = "running"
    /\ \E i \in DOMAIN log : IsDispatch(log[i]) /\ ~log[i].ok

\* a command whose failure run lets escape
IsFatal(e) ==
    /\ ~e.ok
    /\ e.cmd.verb \in {"keygen", "build", "run", "install", "collection install",
                        "playbook"}

\* C18: when a command of run fails and the failure is not swallowed (key
\* generation, build, start, dependency install, dispatch), run raises and main
\* exits with 1; a SystemExit leaves main with its own status, not 1.
C18_FailuresBecomeOne ==
    exit_status # None =>
        /\ (\E i \in DOMAIN log : IsFatal(log[i]))
              => (outcome = Raised /\ exit_status = Some(1))
        /\ outcome = Raised => exit_status = Some(1)
        /\ outcome[1].kind = "system_exit"
              => (exit_status = Some(outcome[1].code) /\ exit_status # Some(1))

C18_Witness ==
    /\ exit_status = Some(1)
    /\ outcome = Raised
    /\ Len(log) = 2
    /\ log[2].cmd.verb = "build" /\ ~log[2].ok

----------------------------------------------------------------------------
(* Properties of the order of run's steps and of its commands (SpecRun) *)

\* C22: a failing build is followed by no stop, no start and no dispatch; a
\* failing start and a failing role or collection install are followed by no
\* dispatch; run then ends by raising.
C22_FailureAbortsRest ==
    \A i \in DOMAIN log :
        /\ (log[i].cmd.verb = "build" /\ ~log[i].ok) =>
              \A j \in DOMAIN log :
                  j > i => ~(IsStop(log[j]) \/ log[j].cmd.verb = "run" \/ IsDispatch(log[j]))
        /\ (log[i].cmd.verb = "run" /\ ~log[i].ok) =>
              \A j \in DOMAIN log : ~IsDispatch(log[j])
        /\ (IsInstall(log[i]) /\ ~log[i].ok) =>
              \A j \in DOMAIN log : ~IsDispatch(log[j])
        /\ (log[i].cmd.verb \in {"build", "run", "install", "collection install"}
              /\ ~log[i].ok /\ outcome # None) => outcome = Raised

C22_Witness ==
    /\ outcome = Raised
    /\ Started
    /\ \E i \in DOMAIN log :
          /\ log[i].cmd.verb = "collection install" /\ ~log[i].ok
          /\ log[i].cmd.args.name = <<"community.general">>
    /\ \E k \in DOMAIN log : IsCleanupStop(log[k])

\* the commands setup_container has issued, in order
SetupCmds == SelectSeq(log, LAMBDA e : e.cmd.site = "setup_container")

\* C23: setup_container issues build, then the stop of the target name, then the
\* start; the stop's failure is swallowed (the start is still issued), so a
\* successful setup_container has issued exactly one start, after the build.
C23_BuildStopStart ==
    /\ Len(SetupCmds) <= 3
    /\ Len(SetupCmds) >= 1 => SetupCmds[1].cmd.verb = "build"
    /\ Len(SetupCmds) >= 2 =>
          /\ SetupCmds[1].ok
          /\ SetupCmds[2].cmd.verb = "stop"
          /\ SetupCmds[2].cmd.args.name = container_name
    /\ Len(SetupCmds) = 2 => (pc = "start_container" /\ ~raising /\ outcome = None)
    /\ Len(SetupCmds) = 3 => SetupCmds[3].cmd.verb = "run"
    /\ container_started => (Len(SetupCmds) = 3 /\ SetupCmds[3].ok)

C23_Witness ==
    /\ container_started
    /\ Len(SetupCmds) = 3
    /\ ~SetupCmds[2].ok
    /\ SetupCmds[3].ok

\* the step of run a command belongs to
StepRank(e) ==
    CASE e.cmd.site = "setup_ssh_keys" -> 1
      [] e.cmd.site = "setup_container" -> 2
      [] e.cmd.site = "setup_roles" -> 3
      [] e.cmd.site = "setup_collections" -> 4
      [] e.cmd.site = "run_playbook" -> 5
      [] e.cmd.site = "cleanup" -> 6

\* C24: the commands of run come in the order credentials, container, roles,
\* collections, dispatch, cleanup, all of them after settings resolution and
\* engine detection; a step begins only when the earlier ones have completed
\* without a failure that propagates; the container is started only after the
\* key generation has succeeded, and unless the container is skipped the
\* dispatch comes only after a successful start.
C24_StepOrder ==
    /\ (log # <<>> \/ roles_action # "none") =>
          (ResolvedDone /\ host_port # None /\ runtime # None /\ volume_opt # None)
    /\ runtime # None => ResolvedDone
    /\ \A i, j \in DOMAIN log :
          i < j =>
              /\ StepRank(log[i]) <= StepRank(log[j])
              /\ (StepRank(log[i]) < StepRank(log[j]) /\ StepRank(log[j]) <= 5)
                    => ~IsFatal(log[i])
    /\ \A j \in DOMAIN log :
          /\ StepRank(log[j]) > 1 =>
                \E i \in 1..(j - 1) : log[i].cmd.verb = "keygen" /\ log[i].ok
          /\ (StepRank(log[j]) \in {3, 4, 5} /\ ~args.skip_container) =>
                \E i \in 1..(j - 1) : IsStartOk(log[i])
          /\ StepRank(log[j]) = 6 => j = Len(log)
    /\ (roles_action # "none" /\ ~args.skip_container) => Started

C24_Witness ==
    /\ outcome = Returned(RC_SUCCESS)
    /\ ~args.skip_container
    /\ roles_action = "install"
    /\ Len(log) = 10
    /\ \A i \in DOMAIN log : log[i].ok
    /\ {StepRank(log[i]) : i \in DOMAIN log} = 1..6

\* the keys run lays over the process environment
ExtraKeys ==
    {<<"ANSIBLE_PRIVATE_KEY_FILE">>, <<"ANSIBLE_HOST_KEY_CHECKING">>,
     <<"ANSIBLE_VAULT_PASSWORD_FILE">>}

\* C29: the environment of the dispatch is the process environment (which holds
\* every pair of the settings file) with the three extra_env pairs laid over it:
\* the extra_env value wins for its key, every other key keeps its value; the
\* -l flag is passed exactly when the limit handed to the dispatch is non-empty.
C29_ExtraEnvOverEnviron ==
    \A i \in DOMAIN log : IsDispatch(log[i]) =>
        LET env == log[i].cmd.args.env
        IN  /\ Get(env, <<"ANSIBLE_PRIVATE_KEY_FILE">>)
                  = Some(playbook_path \o <<"/", "ssh_keys", "/", "ansible_target">>)
            /\ Get(env, <<"ANSIBLE_HOST_KEY_CHECKING">>) = Some(<<"False">>)
            /\ Get(env, <<"ANSIBLE_VAULT_PASSWORD_FILE">>)
                  = Some(playbook_path \o <<"/", "vault-pw.txt">>)
            /\ Keys(env) = Keys(environ) \cup ExtraKeys
            /\ \A k \in Keys(environ) \ ExtraKeys : Get(env, k) = Get(environ, k)
            /\ \A k \in Keys(settings) : Get(environ, k) = Get(settings, k)
            /\ Len(env) = Cardinality(Keys(env))
            /\ (log[i].cmd.args.limit # None)
                  <=> (args.skip_container \/ (args.limit # None /\ args.limit # Some(<<>>)))
            /\ log[i].cmd.args.limit # None => log[i].cmd.args.limit[1] # <<>>

C29_Witness ==
    /\ Get(environ, <<"ANSIBLE_HOST_KEY_CHECKING">>) = Some(<<"True">>)
    /\ Get(environ, <<"ANSIBLE_VAULT_PASSWORD_FILE">>) = Some(<<"/", "o">>)
    /\ \E i \in DOMAIN log :
          /\ IsDispatch(log[i])
          /\ Get(log[i].cmd.args.env, <<"ANSIBLE_HOST_KEY_CHECKING">>) = Some(<<"False">>)
          /\ Get(log[i].cmd.args.env, <<"ANSIBLE_LOG_PATH">>) = Some(<<"ansible.log">>)
          /\ log[i].cmd.args.limit = None

\* the required collections, in the order setup_collections asks for them
Required == << <<"ansible.posix">>, <<"community.general">> >>

\* the positions of the listing commands, and the collection a listing is about
Listings == {i \in DOMAIN log : log[i].cmd.verb = "collection list"}
ListedName(i) == Required[Cardinality({j \in Listings : j <= i})]

IsInstallOf(e, name) == e.cmd.verb = "collection install" /\ e.cmd.args.name = name

\* C30: for each required collection, in order, the install command is issued
\* exactly when its listing failed or does not hold its name, right after that
\* listing; a failing listing does not end setup_collections, a failing install
\* makes run raise.
C30_InstallWhenNotListed ==
    /\ Cardinality(Listings) <= Len(Required)
    /\ \A i \in Listings :
          IF log[i].ok /\ ListedName(i) \in log[i].out
          THEN \A j \in DOMAIN log : ~IsInstallOf(log[j], ListedName(i))
          ELSE IF i = Len(log) THEN pc = "coll_install" /\ ~raising /\ outcome = None
          ELSE IsInstallOf(log[i + 1], ListedName(i))
    /\ \A j \in DOMAIN log :
          log[j].cmd.verb = "collection install" =>
              /\ j - 1 \in Listings
              /\ IsInstallOf(log[j], ListedName(j - 1))
              /\ (~log[j].ok /\ outcome # None) => outcome = Raised
              /\ ~log[j].ok => \A k \in DOMAIN log : k > j => IsCleanupStop(log[k])

C30_Witness ==
    /\ \E i \in Listings :
          /\ ~log[i].ok
          /\ ListedName(i) = <<"ansible.posix">>
          /\ i < Len(log)
          /\ IsInstallOf(log[i + 1], <<"ansible.posix">>) /\ log[i + 1].ok
    /\ \E i \in Listings : log[i].ok /\ ListedName(i) = <<"community.general">>
                             /\ ListedName(i) \in log[i].out
    /\ \E j \in DOMAIN log : IsDispatch(log[j])

----------------------------------------------------------------------------
(* Properties of detect_container_runtime (SpecDetect) *)

\* the order the engines are tried in: the preferred one, if given, then podman,
\* then docker, each once
TriedOrder ==
    IF preferred_engine = None THEN << <<"podman">>, <<"docker">> >>
    ELSE IF preferred_engine[1] = <<"podman">> THEN << <<"podman">>, <<"docker">> >>
    ELSE IF preferred_engine[1] = <<"docker">> THEN << <<"docker">>, <<"podman">> >>
    ELSE << preferred_engine[1], <<"podman">>, <<"docker">> >>

\* C13: detect_container_runtime returns the first engine of the order [preferred
\* (if given), podman, docker] that is executable on the host; with no preferred
\* engine and both present it returns podman, and a preferred engine that is
\* present is returned even when the other is present too.
C13_FirstExecutableInOrder ==
    pc = "detected" =>
        /\ \A i \in DOMAIN TriedOrder :
              ( /\ TriedOrder[i] \in onPath
                /\ \A j \in 1..(i - 1) : TriedOrder[j] \notin onPath )
                  => runtime = Some(TriedOrder[i])
        /\ (preferred_engine = None /\ {<<"podman">>, <<"docker">>} \subseteq onPath)
              => (runtime = Some(<<"podman">>) /\ volume_opt = Some(<<":ro,z">>))
        /\ (preferred_engine # None /\ preferred_engine[1] \in onPath)
              => runtime = preferred_engine

C13_Witness ==
    /\ pc = "detected"
    /\ preferred_engine = Some(<<"docker">>)
    /\ {<<"podman">>, <<"docker">>} \subseteq onPath
    /\ runtime = Some(<<"docker">>)

\* C14: detect_container_runtime returns (None, None) exactly when no engine of
\* its search order is executable on the host; an engine is never returned
\* without a mount option, nor a mount option without an engine.
C14_NoneExactlyWhenNoEngine ==
    pc = "detected" =>
        /\ (runtime = None /\ volume_opt = None)
              <=> (\A i \in DOMAIN TriedOrder : TriedOrder[i] \notin onPath)
        /\ (runtime = None) <=> (volume_opt = None)

C14_Witness ==
    /\ pc = "detected"
    /\ runtime = None /\ volume_opt = None
    /\ preferred_engine = Some(<<"nerdctl">>)
    /\ onPath = {<<"ansible">>}

\* C28: the mount option returned with an engine is ":ro,z" exactly when the
\* engine is podman and ":ro" for every other engine, also for one reached
\* through the preferred argument.
C28_MountOptionByEngine ==
    (pc = "detected" /\ runtime # None) =>
        /\ (volume_opt = Some(<<":ro,z">>)) <=> (runtime = Some(<<"podman">>))
        /\ runtime # Some(<<"podman">>) => volume_opt = Some(<<":ro">>)

C28_Witness ==
    /\ pc = "detected"
    /\ preferred_engine = Some(<<"nerdctl">>)
    /\ {<<"nerdctl">>, <<"podman">>} \subseteq onPath
    /\ runtime = Some(<<"nerdctl">>)
    /\ volume_opt = Some(<<":ro">>)

\* the image an engine means by a reference: one without a tag names :latest
ImageName(ref) ==
    IF ref # <<>> /\ ref[Len(ref)] = ":latest" THEN ref ELSE ref \o <<":latest">>

\* C32: the image reference of every start command names the image that the
\* build command before it has tagged, whatever the effective container name.
C32_StartsBuiltImage ==
    \A i \in DOMAIN log :
        (log[i].cmd.verb = "run" /\ log[i].cmd.site = "setup_container") =>
            \E j \in 1..(i - 1) :
                /\ log[j].cmd.verb = "build"
                /\ ImageName(log[j].cmd.args.tag) = ImageName(log[i].cmd.args.image)

----------------------------------------------------------------------------
(* Termination of the run workflow (SpecRunLive) *)

\* no command is issued again: the commands of the log differ from each other,
\* but for the collection listing, issued once for each collection checked
NoRetry ==
    /\ \A i, j \in DOMAIN log :
          (i < j /\ log[i].cmd = log[j].cmd) => log[i].cmd = CollectionListCmd
    /\ Cardinality({i \in DOMAIN log : log[i].cmd = CollectionListCmd})
          <= Len(COLLECTIONS)
    /\ Cardinality({i \in DOMAIN log : IsDispatch(log[i])}) <= 1

----------------------------------------------------------------------------
(* Properties of setup_roles (SpecRoles) *)

\* roles/ exists, holds no directory or symlink, and holds requirements.yml
RolesToFetch == roles.exists /\ ~roles.entries /\ roles.requirements

\* C31: setup_roles issues a command, the role installer, only from a project
\* whose roles/ exists, holds no role entry and holds requirements.yml while no
\* sibling checkout exists; from such a project with the sibling checkout it
\* leaves a symlink at roles/ans_dev_sandbox_role, issues nothing and returns.
C31_InstallOnlyWithoutSibling ==
    [][ /\ log' # log =>
            /\ pc = "setup_roles" /\ RolesToFetch /\ ~roles.sibling
            /\ Len(log') = Len(log) + 1
            /\ log'[Len(log')].cmd =
                   RolesCmd(playbook_path \o <<"/", "roles/requirements.yml">>,
                            playbook_path \o <<"/", "roles">>)
        /\ (pc = "setup_roles" /\ RolesToFetch /\ roles.sibling) =>
            /\ roles'.link = "symlink"
            /\ log' = log
            /\ pc' = "roles_returned" ]_vars

C31_Witness ==
    /\ pc = "roles_returned"
    /\ roles_action = "link"
    /\ roles.requirements /\ roles.sibling /\ roles.link = "symlink"
    /\ log = <<>>

----------------------------------------------------------------------------
(* Properties of setup_ssh_keys (SpecKeys) *)

\* C19: once setup_ssh_keys has reached the key generation, no file is left at
\* the private key path, the public key path or the authorized file path; after
\* a call that failed, no key file of an earlier run or call remains.
C19_NoStaleKeyMaterial ==
    pc \in {"ssh_keygen", "keys_raised"} =>
        /\ keys.priv = NoKey
        /\ keys.pub = NoKey
        /\ keys.auth = NoKey

\* C20: every call invokes ssh-keygen on an empty target (no private and no
\* public key file), and after a successful call the private and public key are
\* the pair that call generated, which no earlier call or run has produced.
C20_FreshPairEachCall ==
    /\ pc = "ssh_keygen" => (keys.priv = NoKey /\ keys.pub = NoKey)
    /\ pc = "keys_returned" =>
          /\ keys.priv = FreshKey(Keygens(log))
          /\ keys.pub = keys.priv
          /\ keys.priv # OldKey
          /\ \A n \in 1..(Keygens(log) - 1) : keys.priv # FreshKey(n)

\* C25: after a successful call authorized_keys holds the public key this call
\* generated and the private key file exists; after a call whose ssh-keygen
\* failed the call has raised and authorized_keys is as it was: absent, an
\* earlier run's, or an earlier successful call's.
C25_AuthorizedIsPublicKey ==
    /\ pc = "keys_returned" =>
          /\ log[Len(log)].ok
          /\ keys.pub = FreshKey(Keygens(log))
          /\ keys.auth = keys.pub
          /\ keys.priv # NoKey
    /\ pc = "keys_raised" =>
          /\ ~log[Len(log)].ok
          /\ keys.auth # FreshKey(Keygens(log))
          /\ \/ keys.auth \in {NoKey, OldKey}
             \/ \E n \in 1..(Len(log) - 1) : log[n].ok /\ keys.auth = FreshKey(n)

C25_Witness ==
    /\ pc = "keys_returned"
    /\ Len(log) = 2 /\ ~log[1].ok /\ log[2].ok
    /\ keys.auth = FreshKey(2) /\ keys.pub = FreshKey(2)

C20_Witness ==
    /\ pc = "keys_returned"
    /\ Len(log) = 2 /\ log[1].ok /\ log[2].ok
    /\ keys.priv = FreshKey(2) /\ keys.auth = FreshKey(2)

----------------------------------------------------------------------------
(* Properties of select_python (SpecSelect) and of activate (SpecActivate) *)

\* 3.10.0 <= v < 3.15.0
InRange(v) == v[1] = 3 /\ v[2] >= 10 /\ v[2] < 15

\* a version as one number (every component is below 100)
VersionKey(v) == v[1] * 10000 + v[2] * 100 + v[3]

\* C6: select_python never returns the path of a candidate outside
\* [3.10.0, 3.15.0), and returns None when no candidate is inside it.
C6_NeverOutOfRange ==
    actPc = "selected" =>
        /\ picked # None =>
              \E i \in DOMAIN candidates :
                  candidates[i][1] = picked[1] /\ InRange(candidates[i][2])
        /\ (\A i \in DOMAIN candidates : ~InRange(candidates[i][2])) => picked = None

C6_Witness ==
    /\ actPc = "selected"
    /\ picked # None
    /\ \E i, j \in DOMAIN candidates :
          /\ VersionKey(candidates[i][2]) >= VersionKey(<<3, 15, 0>>)
          /\ VersionKey(candidates[j][2]) < VersionKey(<<3, 10, 0>>)

\* C7: with at least one candidate in range, select_python returns the path of an
\* in-range candidate whose version no in-range candidate exceeds, wherever in the
\* list it stands.
C7_PicksMaximum ==
    (actPc = "selected" /\ \E i \in DOMAIN candidates : InRange(candidates[i][2])) =>
        /\ picked # None
        /\ \E i \in DOMAIN candidates :
              /\ candidates[i][1] = picked[1]
              /\ InRange(candidates[i][2])
              /\ \A j \in DOMAIN candidates :
                    InRange(candidates[j][2]) =>
                        VersionKey(candidates[j][2]) <= VersionKey(candidates[i][2])

C7_Witness ==
    /\ actPc = "selected"
    /\ Len(candidates) = 3
    /\ picked = Some(2)
    /\ InRange(candidates[1][2]) /\ InRange(candidates[2][2])
    /\ VersionKey(candidates[1][2]) < VersionKey(candidates[2][2])
    /\ VersionKey(candidates[3][2]) > VersionKey(candidates[2][2])

\* C26: when several in-range candidates share the greatest version,
\* select_python returns the path of the first of them in the sequence.
C26_FirstOfEqualWins ==
    actPc = "selected" =>
        \A i \in DOMAIN candidates :
            ( /\ InRange(candidates[i][2])
              /\ \A j \in DOMAIN candidates :
                    InRange(candidates[j][2]) =>
                        VersionKey(candidates[j][2]) <= VersionKey(candidates[i][2])
              /\ \A j \in 1..(i - 1) : candidates[j][2] # candidates[i][2] )
                => picked = Some(candidates[i][1])

C26_Witness ==
    /\ actPc = "selected"
    /\ Len(candidates) = 3
    /\ InRange(candidates[1][2]) /\ InRange(candidates[2][2])
    /\ VersionKey(candidates[2][2]) < VersionKey(candidates[1][2])
    /\ candidates[3][2] = candidates[1][2]
    /\ picked = Some(candidates[1][1])

\* activate searched for an interpreter and none was in range
NoInterpreterFound ==
    /\ ~host.venv_exists
    /\ ~host.unit_testing
    /\ \A i \in DOMAIN candidates : ~InRange(candidates[i][2])

\* C8: when activate finds no interpreter in the version range (no environment
\* exists yet), the exit status is 3 (NO_PYTHON).
C8_NoPythonExitStatus ==
    (exit_status # None /\ actPc = "done" /\ NoInterpreterFound) =>
        exit_status[1] = RC_NO_PYTHON

\* the values a settings file text holds for a key: what follows KEY= on the
\* lines that start with it, untrimmed
RawValues(text, key) ==
    {SubSeq(l, Len(key) + 2, Len(l)) :
        l \in {m \in Items(SplitLines(text)) :
                  Len(m) > Len(key) /\ SubSeq(m, 1, Len(key) + 1) = key \o <<"=">>}}

\* C21: whatever the settings file was before (absent, empty, holding other
\* values for the same keys), once activate has returned it has returned 0 and
\* the file holds exactly one line for each of CONTAINER_RUNTIME=podman,
\* CONTAINER_HOST_PORT=2222, CONTAINER_NAME=ansible_target and PLAYBOOK_PATH=P.
C21_ActivateWritesDefaults ==
    (actPc = "done" /\ outcome # None /\ outcome # Raised) =>
        /\ outcome = Returned(0)
        /\ envFile.exists
        /\ RawValues(envFile.text, <<"CONTAINER_RUNTIME">>) = {<<"podman">>}
        /\ RawValues(envFile.text, <<"CONTAINER_HOST_PORT">>) = {<<"2", "2", "2", "2">>}
        /\ RawValues(envFile.text, <<"CONTAINER_NAME">>) = {<<"ansible_target">>}
        /\ RawValues(envFile.text, <<"PLAYBOOK_PATH">>) = {playbook_path}
        /\ exit_status # None => exit_status = Some(0)

C21_Witness ==
    /\ actPc = "done"
    /\ exit_status = Some(0)
    /\ playbook_path = <<"/s", " ">>
    /\ RawValues(envFile.text, <<"b">>) = {<<>>}
    /\ RawValues(envFile.text, <<"CONTAINER_NAME">>) = {<<"ansible_target">>}
    /\ RawValues(envFile.text, <<"PLAYBOOK_PATH">>) = {<<"/s", " ">>}

\* the keys activate writes when it ends with interpreter venv
ActivationKeys(venv) ==
    Keys(build_activation_env(playbook_path))
        \cup (IF venv # None THEN {<<"VENV_PYTHON">>} ELSE {})

\* C33: the step of activate that writes the settings file keeps every pair of
\* the file whose key is no activation key: the written file maps the key, on
\* one line, to the value the file held for it before.
C33_OtherPairsKept ==
    [][ actPc = "write_env" =>
            \A k \in Keys(load_env_file(envFile)) \ ActivationKeys(venv_python) :
                /\ Get(load_env_file(envFile'), k) = Get(load_env_file(envFile), k)
                /\ RawValues(envFile'.text, k) = {Get(load_env_file(envFile), k)[1]} ]_vars

C33_Witness ==
    /\ actPc = "done" /\ outcome = ActivateReturn
    /\ venv_python = None
    /\ Get(load_env_file(envFile), <<"VENV_PYTHON">>) = Some(<<"/", "o">>)
    /\ Get(load_env_file(envFile), <<"b">>) = Some(<<"1">>)
    /\ Get(load_env_file(envFile), <<>>) = Some(<<"a">>)
    /\ Get(load_env_file(envFile), <<"PLAYBOOK_PATH">>) # None

----------------------------------------------------------------------------
(* Properties of the settings-file helpers (SpecEnv, SpecWrite) *)

\* a line that contributes an entry: not blank, no comment, with an "="
Contributes(l) == Strip(l) # <<>> /\ Head(Strip(l)) # "#" /\ Find(Strip(l), "=") > 0
\* the trimmed text before and after the first "=" of a line
KeyOf(l) == Strip(SubSeq(Strip(l), 1, Find(Strip(l), "=") - 1))
ValueOf(l) == Strip(SubSeq(Strip(l), Find(Strip(l), "=") + 1, Len(Strip(l))))

\* C27: the dict load_env_file returns has exactly the keys of the lines that are
\* not blank, are no comment and hold an "=": the trimmed text before the first
\* "="; each key maps to the trimmed text after the first "=" of the last such
\* line, further "=" included; a missing file gives the empty dict.
C27_SplitOnFirstSeparator ==
    envPc \in {"loaded", "written", "reloaded"} =>
        LET lines == IF fileF.exists THEN SplitLines(fileF.text) ELSE <<>>
            q == {i \in DOMAIN lines : Contributes(lines[i])}
        IN  /\ Keys(data) = {KeyOf(lines[i]) : i \in q}
            /\ Len(data) = Cardinality(Keys(data))
            /\ \A i \in q :
                  (\A j \in q : j > i => KeyOf(lines[j]) # KeyOf(lines[i]))
                      => Get(data, KeyOf(lines[i])) = Some(ValueOf(lines[i]))
            /\ ~fileF.exists => data = <<>>

C27_Witness ==
    /\ envPc = "loaded"
    /\ fileF.exists /\ fileF.text # <<>> /\ Head(fileF.text) = "#"
    /\ data = << <<<<"a">>, <<"=">>>> >>

\* C9: the dict loaded from the file written from M = load_env_file(f) is M.
C9_RoundTrip ==
    envPc = "reloaded" => (Items(data2) = Items(data) /\ Len(data2) = Len(data))

C9_Witness ==
    /\ envPc = "reloaded"
    /\ Len(data) = 2
    /\ fileG.text # fileF.text
    /\ SplitLines(fileG.text) # SplitLines(fileF.text)

\* every order of n items
Perms(n) == {f \in [1..n -> 1..n] : \A i, j \in 1..n : i # j => f[i] # f[j]}
Permuted(d, f) == [i \in 1..Len(d) |-> d[f[i]]]

\* C10: the file write_env_file writes ends with a newline, its lines are the
\* KEY=VALUE lines of the dict's items, one per key, in strictly ascending key
\* order, and every insertion order of the same items gives the same file.
C10_SortedDeterministic ==
    envPc = "written" =>
        LET text == fileG.text
            kv == SelectSeq(SplitLines(text), LAMBDA l : l # <<>>)
            n == Len(data)
        IN  /\ fileG.exists
            /\ text # <<>> /\ text[Len(text)] = NL
            /\ Len(kv) = n
            /\ \E f \in Perms(n) :
                  /\ \A i \in 1..n : kv[i] = data[f[i]][1] \o <<"=">> \o data[f[i]][2]
                  /\ \A i \in 1..(n - 1) : StrLess(data[f[i]][1], data[f[i + 1]][1])
            /\ \A f \in Perms(n) : write_env_file(Permuted(data, f)) = fileG

C10_Witness ==
    /\ envPc = "written"
    /\ Len(data) = 3
    /\ StrLess(data[3][1], data[1][1]) /\ StrLess(data[1][1], data[2][1])
====
